---- MODULE Spec2Model ----
(***************************************************************************)
(* A model of the front end of github.com/velour/stop/ast:                 *)
(*   - the symbol table and the declaration resolver of ast/decl.go        *)
(*     (symtab, Find, Bind, pkgDecls, fileDecls) with the error container  *)
(*     of ast/errors.go;                                                   *)
(*   - the recursive-descent parser of the grammar file (Parse and the     *)
(*     grammar functions it reaches).                                      *)
(* Spec is the resolver; SpecParse is the parser.                          *)
(***************************************************************************)
EXTENDS Integers, Sequences, FiniteSets, TLC

VARIABLES
    tabs,      \* the heap of symtabs: tabs[s] = [Up, Decls]; tabs[UnivScope] is univScope
    pc,        \* the position of the resolver: idle, files, imports, decls, done
    inv,       \* the number of pkgDecls invocations started
    psyms,     \* pkgDecls' psyms: the package scope of the running invocation
    syms,      \* fileDecls' syms, then f.syms of the file being walked
    errs,      \* pkgDecls' errs
    ferrs,     \* fileDecls' errs
    files,     \* the files walked so far by the running invocation, as they now are
    binds,     \* the Bind calls made by the last step, in order, with their results
    calls,     \* the number of Bind calls made so far
    ret,       \* what the running invocation of pkgDecls returned: [syms, err]
    fret,      \* what the last call of fileDecls by this invocation returned: [syms, err]
    src,       \* the parser's input: the token stream under the cursor
    out        \* what Parse returned for src: [root, err], or the panic it re-raised

rvars == <<tabs, pc, inv, psyms, syms, errs, ferrs, files, binds, calls, ret, fret>>
pvars == <<src, out>>
vars == <<tabs, pc, inv, psyms, syms, errs, ferrs, files, binds, calls, ret, fret, src, out>>

(***************************************************************************)
(* Bounds of the model.                                                    *)
(***************************************************************************)
\* The most symtabs allocated in one run (package, file and import scopes).
MaxScopes == 3
\* The most Bind calls made in one run, over all invocations of pkgDecls.
MaxBinds == 2

\* The identifiers the inputs are drawn from: the blank identifier, two
\* ordinary names and a name that the universe scope predeclares.
Names == {"_", "a", "b", "int"}

\* The identifier lists of a ConstSpec or VarSpec, and the import specs of an ImportDecl.
NameLists == UNION {[1..k -> Names] : k \in 1..MaxBinds}

(***************************************************************************)
(* Values.                                                                 *)
(***************************************************************************)
\* The nil *symtab.
Nil == 0
\* The address of the package-level variable univScope.
UnivScope == 1

\* The nil Declaration and the nil error.
NilDecl == [kind |-> "nil"]
NilErr == [kind |-> "nil"]

predeclaredType(t) == [kind |-> "predeclaredType", id |-> t]
predeclaredConst(n) == [kind |-> "predeclaredConst", id |-> n]
predeclaredFunc(n) == [kind |-> "predeclaredFunc", id |-> n]

PredeclaredTypes ==
    [n \in {"bool", "complex64", "complex128", "error", "float32", "float64",
            "int", "int8", "int16", "int32", "int64", "string", "uint", "uint8",
            "uint16", "uint32", "uint64", "uintptr"} |-> predeclaredType(n)]

univDecls ==
    ("byte" :> predeclaredType("uint8")) @@ ("rune" :> predeclaredType("int32"))
    @@ PredeclaredTypes
    @@ [n \in {"true", "false", "iota", "nil"} |-> predeclaredConst(n)]
    @@ [n \in {"append", "cap", "close", "complex", "copy", "delete", "imag",
               "len", "make", "new", "panic", "print", "println", "real",
               "recover"} |-> predeclaredFunc(n)]

univScope == [Up |-> Nil, Decls |-> univDecls]

\* checkState
unchecked == 0
checking == 1
checkedOK == 2
checkedError == 3

\* A top-level declaration node of file f (0-based position idx) of invocation i.
DeclNode(kind, i, f, idx, fsyms) ==
    [kind |-> kind, inv |-> i, file |-> f, idx |-> idx, syms |-> fsyms]

constSpecViewZero(d, i) ==
    [kind |-> "constSpecView", ConstSpec |-> d, Index |-> 0,
     Type |-> Nil, Value |-> Nil, state |-> 0]

constSpecViewChecked(d, i) ==
    [kind |-> "constSpecView", ConstSpec |-> d, Index |-> i,
     Type |-> Nil, Value |-> Nil, state |-> checkedOK]

constSpecView(d, i) ==
    [kind |-> "constSpecView", ConstSpec |-> d, Index |-> i,
     Type |-> Nil, Value |-> Nil, state |-> unchecked]

varSpecView(d, i) == [kind |-> "varSpecView", VarSpec |-> d, Index |-> i]

packageDecl(s, i, f, idx, j) ==
    [kind |-> "packageDecl", syms |-> s,
     ImportDecl |-> [inv |-> i, file |-> f, idx |-> idx], spec |-> j]

Redeclaration(n, first, second) ==
    [kind |-> "Redeclaration", Name |-> n, First |-> first, Second |-> second]

(***************************************************************************)
(* errors (ast/errors.go).                                                 *)
(***************************************************************************)
ErrorOrNilAlways(es) == [kind |-> "errors", list |-> es]

ErrorOrNil(es) ==
    IF Len(es) = 0 THEN NilErr ELSE [kind |-> "errors", list |-> es]

appendErrDrop(es, e) == es

\* if err != nil { errs = append(errs, err) }
appendErr(es, e) == IF e # NilErr THEN Append(es, e) ELSE es

(***************************************************************************)
(* symtab (ast/decl.go).                                                   *)
(***************************************************************************)
\* makeSymtab leaving the new scope without an enclosing one.
makeSymtabDetached(h, up) ==
    [heap |-> Append(h, [Up |-> Nil, Decls |-> <<>>]), id |-> Len(h) + 1]

makeSymtabShared(h, up) == [heap |-> h, id |-> up]

\* Allocates a symtab with an empty Decls map; id is its address.
makeSymtab(h, up) ==
    [heap |-> Append(h, [Up |-> up, Decls |-> <<>>]), id |-> Len(h) + 1]

RECURSIVE Find(_, _, _)
FindOuterFirst(h, s, n) ==
    IF s = Nil THEN NilDecl
    ELSE IF Find(h, h[s].Up, n) # NilDecl THEN Find(h, h[s].Up, n)
    ELSE IF n \in DOMAIN h[s].Decls THEN h[s].Decls[n]
    ELSE NilDecl

Find(h, s, n) ==
    IF s = Nil THEN NilDecl
    ELSE IF n \in DOMAIN h[s].Decls THEN h[s].Decls[n]
    ELSE Find(h, h[s].Up, n)

BindOverwrite(h, s, n, decl) ==
    IF n = "_" THEN [heap |-> h, err |-> NilErr]
    ELSE IF n \in DOMAIN h[s].Decls
    THEN [heap |-> [h EXCEPT ![s].Decls = [@ EXCEPT ![n] = decl]],
          err |-> Redeclaration(n, h[s].Decls[n], decl)]
    ELSE [heap |-> [h EXCEPT ![s].Decls = (n :> decl) @@ @], err |-> NilErr]

BindBlank(h, s, n, decl) ==
    IF n \in DOMAIN h[s].Decls
    THEN [heap |-> h, err |-> Redeclaration(n, h[s].Decls[n], decl)]
    ELSE [heap |-> [h EXCEPT ![s].Decls = (n :> decl) @@ @], err |-> NilErr]

BindChain(h, s, n, decl) ==
    IF n = "_" THEN [heap |-> h, err |-> NilErr]
    ELSE IF Find(h, s, n) # NilDecl
    THEN [heap |-> h, err |-> Redeclaration(n, Find(h, s, n), decl)]
    ELSE [heap |-> [h EXCEPT ![s].Decls = (n :> decl) @@ @], err |-> NilErr]

Bind(h, s, n, decl) ==
    IF n = "_" THEN [heap |-> h, err |-> NilErr]
    ELSE IF n \in DOMAIN h[s].Decls
    THEN [heap |-> h, err |-> Redeclaration(n, h[s].Decls[n], decl)]
    ELSE [heap |-> [h EXCEPT ![s].Decls = (n :> decl) @@ @], err |-> NilErr]

\* The record of one Bind call: its receiver, arguments and result, the
\* receiver's table before and after the call; outer is what the scopes that
\* enclose the receiver bound the name to when the call was made.
BindCall(h, s, n, decl) ==
    [s |-> s, n |-> n, decl |-> decl, err |-> Bind(h, s, n, decl).err,
     pre |-> h[s].Decls, post |-> Bind(h, s, n, decl).heap[s].Decls,
     outer |-> Find(h, h[s].Up, n)]

(***************************************************************************)
(* The resolver (ast/decl.go): pkgDecls and fileDecls.                     *)
(***************************************************************************)
\* The state a loop of the resolver threads through its iterations.
LoopState(h, es, vs, log) == [heap |-> h, errs |-> es, views |-> vs, log |-> log]

\* for i := range d.Identifiers of a *ConstSpec d, from position i on.
RECURSIVE constSpecLoop(_, _, _, _, _)
constSpecLoop(st, ps, d, names, i) ==
    IF i >= Len(names) THEN st
    ELSE LET n == names[i + 1]
             v == constSpecView(d, i)
             r == Bind(st.heap, ps, n, v)
         IN constSpecLoop(LoopState(r.heap, appendErr(st.errs, r.err),
                                    Append(st.views, v),
                                    Append(st.log, BindCall(st.heap, ps, n, v))),
                          ps, d, names, i + 1)

\* for i := range d.Identifiers of a *VarSpec d, from position i on.
RECURSIVE varSpecLoop(_, _, _, _, _)
varSpecLoop(st, ps, d, names, i) ==
    IF i >= Len(names) THEN st
    ELSE LET n == names[i + 1]
             v == varSpecView(d, i)
             r == Bind(st.heap, ps, n, v)
         IN varSpecLoop(LoopState(r.heap, appendErr(st.errs, r.err), st.views,
                                  Append(st.log, BindCall(st.heap, ps, n, v))),
                        ps, d, names, i + 1)

RECURSIVE importLoop(_, _, _, _, _, _)
\* The loop chaining the scope of each imported package to the file scope.
importLoopUnderFile(st, fs, f, idx, names, j) ==
    IF j >= Len(names) THEN st
    ELSE LET m == makeSymtab(st.heap, fs)
             p == packageDecl(m.id, inv, f, idx, j)
             r == Bind(m.heap, fs, names[j + 1], p)
         IN importLoop(LoopState(r.heap, appendErr(st.errs, r.err), st.views,
                                 Append(st.log, BindCall(m.heap, fs, names[j + 1], p))),
                       fs, f, idx, names, j + 1)

\* for _, im := range d.Imports of file.Imports[idx], from import spec j on.
importLoop(st, fs, f, idx, names, j) ==
    IF j >= Len(names) THEN st
    ELSE LET m == makeSymtab(st.heap, UnivScope)
             p == packageDecl(m.id, inv, f, idx, j)
             r == Bind(m.heap, fs, names[j + 1], p)
         IN importLoop(LoopState(r.heap, appendErr(st.errs, r.err), st.views,
                                 Append(st.log, BindCall(m.heap, fs, names[j + 1], p))),
                       fs, f, idx, names, j + 1)

\* The symtabs allocated so far, univScope excluded.
Allocated == Len(tabs) - 1

\* The file being walked and the position of its next declaration.
CurFile == Len(files) - 1
CurIdx == Len(files[Len(files)].Declarations)

\* No call has returned yet.
NoRet == [kind |-> "none"]

\* The resolver before any invocation: only the universe scope exists.
ResolverIdle ==
    /\ tabs = <<univScope>>
    /\ pc = "idle"
    /\ inv = 0
    /\ psyms = Nil
    /\ syms = Nil
    /\ errs = <<>>
    /\ ferrs = <<>>
    /\ files = <<>>
    /\ binds = <<>>
    /\ calls = 0
    /\ ret = NoRet
    /\ fret = NoRet

Init ==
    /\ ResolverIdle
    /\ src = <<>>
    /\ out = NoRet

\* pkgDecls is called: psyms := makeSymtab(&univScope); var errs errors.
PkgDeclsBegin ==
    /\ pc \in {"idle", "done"}
    /\ Allocated < MaxScopes
    /\ LET m == makeSymtab(tabs, UnivScope)
       IN /\ tabs' = m.heap
          /\ psyms' = m.id
    /\ inv' = inv + 1
    /\ errs' = <<>>
    /\ ferrs' = <<>>
    /\ syms' = Nil
    /\ files' = <<>>
    /\ binds' = <<>>
    /\ ret' = NoRet
    /\ fret' = NoRet
    /\ pc' = "files"
    /\ UNCHANGED <<calls, src, out>>

FileDeclsBeginUnderUniverse ==
    /\ pc \in {"files", "decls"}
    /\ Allocated < MaxScopes
    /\ LET m == makeSymtab(tabs, UnivScope)
       IN /\ tabs' = m.heap
          /\ syms' = m.id
    /\ ferrs' = <<>>
    /\ files' = Append(files, [Imports |-> <<>>, Declarations |-> <<>>, syms |-> Nil])
    /\ binds' = <<>>
    /\ fret' = NoRet
    /\ pc' = "imports"
    /\ UNCHANGED <<inv, psyms, errs, calls, ret, src, out>>

\* The next file of the range: fileDecls(psyms, f) is called and makes its symtab.
FileDeclsBegin ==
    /\ pc \in {"files", "decls"}
    /\ Allocated < MaxScopes
    /\ LET m == makeSymtab(tabs, psyms)
       IN /\ tabs' = m.heap
          /\ syms' = m.id
    /\ ferrs' = <<>>
    /\ files' = Append(files, [Imports |-> <<>>, Declarations |-> <<>>, syms |-> Nil])
    /\ binds' = <<>>
    /\ fret' = NoRet
    /\ pc' = "imports"
    /\ UNCHANGED <<inv, psyms, errs, calls, ret, src, out>>

\* One iteration of fileDecls' outer loop: the import declaration file.Imports[i]
\* with the import specs named names.
FileDeclsImport(names) ==
    /\ pc = "imports"
    /\ calls + Len(names) <= MaxBinds
    /\ Allocated + Len(names) <= MaxScopes
    /\ LET st == importLoop(LoopState(tabs, ferrs, <<>>, <<>>), syms, CurFile,
                            Len(files[Len(files)].Imports), names, 0)
       IN /\ tabs' = st.heap
          /\ ferrs' = st.errs
          /\ binds' = st.log
    /\ calls' = calls + Len(names)
    /\ files' = [files EXCEPT ![Len(files)].Imports = Append(@, names)]
    /\ UNCHANGED <<pc, inv, psyms, syms, errs, ret, fret, src, out>>

\* fileDecls returns syms, errs.ErrorOrNil(); pkgDecls stores f.syms and keeps the error.
FileDeclsReturn ==
    /\ pc = "imports"
    /\ fret' = [kind |-> "return", syms |-> syms, err |-> ErrorOrNil(ferrs)]
    /\ files' = [files EXCEPT ![Len(files)].syms = syms]
    /\ errs' = appendErr(errs, ErrorOrNil(ferrs))
    /\ binds' = <<>>
    /\ pc' = "decls"
    /\ UNCHANGED <<tabs, inv, psyms, syms, ferrs, calls, ret, src, out>>

\* What a step of pkgDecls' inner loop leaves behind for the declaration it walked.
Walk(kind, names, st) ==
    /\ tabs' = st.heap
    /\ errs' = st.errs
    /\ binds' = st.log
    /\ calls' = calls + Len(names)
    /\ files' = [files EXCEPT ![Len(files)].Declarations =
                    Append(@, [kind |-> kind, names |-> names, syms |-> syms,
                               views |-> st.views])]
    /\ UNCHANGED <<pc, inv, psyms, syms, ferrs, ret, fret, src, out>>

\* A declaration that binds its own identifier: d.syms = f.syms; psyms.Bind(name, d).
BindOne(kind, n) ==
    LET d == DeclNode(kind, inv, CurFile, CurIdx, syms)
        r == Bind(tabs, psyms, n, d)
    IN LoopState(r.heap, appendErr(errs, r.err), <<>>, <<BindCall(tabs, psyms, n, d)>>)

\* case *MethodDecl
PkgDeclsMethodDecl(n) ==
    /\ pc = "decls"
    /\ calls < MaxBinds
    /\ Walk("MethodDecl", <<n>>, BindOne("MethodDecl", n))

\* case *FunctionDecl
PkgDeclsFunctionDecl(n) ==
    /\ pc = "decls"
    /\ calls < MaxBinds
    /\ Walk("FunctionDecl", <<n>>, BindOne("FunctionDecl", n))

\* case *TypeSpec
PkgDeclsTypeSpec(n) ==
    /\ pc = "decls"
    /\ calls < MaxBinds
    /\ Walk("TypeSpec", <<n>>, BindOne("TypeSpec", n))

\* case *ConstSpec
PkgDeclsConstSpec(names) ==
    /\ pc = "decls"
    /\ calls + Len(names) <= MaxBinds
    /\ Walk("ConstSpec", names,
            constSpecLoop(LoopState(tabs, errs, <<>>, <<>>), psyms,
                          DeclNode("ConstSpec", inv, CurFile, CurIdx, syms), names, 0))

\* case *VarSpec
PkgDeclsVarSpec(names) ==
    /\ pc = "decls"
    /\ calls + Len(names) <= MaxBinds
    /\ Walk("VarSpec", names,
            varSpecLoop(LoopState(tabs, errs, <<>>, <<>>), psyms,
                        DeclNode("VarSpec", inv, CurFile, CurIdx, syms), names, 0))

\* return psyms, errs.ErrorOrNil()
PkgDeclsReturn ==
    /\ pc \in {"files", "decls"}
    /\ ret' = [kind |-> "return", syms |-> psyms, err |-> ErrorOrNil(errs)]
    /\ binds' = <<>>
    /\ pc' = "done"
    /\ UNCHANGED <<tabs, inv, psyms, syms, errs, ferrs, files, calls, fret, src, out>>

Next ==
    \/ PkgDeclsBegin
    \/ FileDeclsBegin
    \/ \E names \in NameLists : FileDeclsImport(names)
    \/ FileDeclsReturn
    \/ \E n \in Names : PkgDeclsMethodDecl(n)
    \/ \E n \in Names : PkgDeclsFunctionDecl(n)
    \/ \E n \in Names : PkgDeclsTypeSpec(n)
    \/ \E names \in NameLists : PkgDeclsConstSpec(names)
    \/ \E names \in NameLists : PkgDeclsVarSpec(names)
    \/ PkgDeclsReturn

Spec == Init /\ [][Next]_vars

(***************************************************************************)
(* The parser's cursor.  The Parser type and the lexer are not part of the *)
(* source at hand: the cursor is the one the specification describes, a    *)
(* current token kind with its text and span and an advance operation.     *)
(* A token stream is a sequence of [tok, text]; the cursor is an index i   *)
(* into it and sees EOF past its end.  Comments are not modelled.          *)
(***************************************************************************)
\* p.tok
Tok(t, i) == IF i <= Len(t) THEN t[i].tok ELSE "EOF"

\* p.text() and p.lex.Text()
Text(t, i) == IF i <= Len(t) THEN t[i].text ELSE <<>>

\* p.lex.Start and p.lex.End of the i-th token.
lexStart(i) == 2 * i - 1
lexEnd(i) == 2 * i

\* p.span()
spanOf(i) == [start |-> lexStart(i), end |-> lexEnd(i)]

\* p.next()
next(i) == i + 1

\* The absent node (a nil Node, Type or Expression) and the empty slice.
NilNode == [kind |-> "nil"]

\* p.err(want...): the SyntaxError for the token under the cursor.
SyntaxError(t, i, wanted) ==
    [kind |-> "SyntaxError", Wanted |-> wanted, Got |-> Tok(t, i),
     Text |-> Text(t, i), Start |-> lexStart(i), End |-> lexEnd(i)]

MalformedLiteral(t, i, type) ==
    [kind |-> "MalformedLiteral", Type |-> type, Text |-> Text(t, i),
     Start |-> lexStart(i), End |-> lexEnd(i)]

\* panic(msg) with a string: neither a SyntaxError nor a MalformedLiteral.
StringPanic(msg) == [kind |-> "panic", msg |-> msg]

\* What a grammar function leaves: the cursor, and either the value it
\* returned or the value it panicked with.
Ok(i, v) == [i |-> i, v |-> v, err |-> NilErr]
Raise(i, e) == [i |-> i, v |-> NilNode, err |-> e]
Failed(r) == r.err # NilErr

\* p.expect(tok): panics with p.err(tok) unless tok is under the cursor.
Expects(t, i, tok) == Tok(t, i) = tok
expect(t, i, tok) == Raise(i, SyntaxError(t, i, <<tok>>))

(***************************************************************************)
(* Literals.  The text of a literal token is its sequence of characters.   *)
(***************************************************************************)
DigitValue ==
    [c \in {"0", "1", "2", "3", "4", "5", "6", "7", "8", "9"} |->
        CASE c = "0" -> 0 [] c = "1" -> 1 [] c = "2" -> 2 [] c = "3" -> 3
          [] c = "4" -> 4 [] c = "5" -> 5 [] c = "6" -> 6 [] c = "7" -> 7
          [] c = "8" -> 8 [] c = "9" -> 9]
    @@ [c \in {"a", "b", "c", "d", "e", "f"} |->
        CASE c = "a" -> 10 [] c = "b" -> 11 [] c = "c" -> 12 [] c = "d" -> 13
          [] c = "e" -> 14 [] c = "f" -> 15]

RECURSIVE Digits(_, _, _)
\* The value of the digits cs in the given base on top of acc, or -1 if one
\* of them is no digit of the base.
Digits(cs, base, acc) ==
    IF cs = <<>> THEN acc
    ELSE IF Head(cs) \notin DOMAIN DigitValue \/ DigitValue[Head(cs)] >= base THEN -1
    ELSE Digits(Tail(cs), base, acc * base + DigitValue[Head(cs)])

\* big.Int.SetString(text, 0): the base is taken from the prefix; ok is
\* false if the text is no number of that base.
IntSetString(cs) ==
    LET hex == Len(cs) >= 2 /\ cs[1] = "0" /\ cs[2] \in {"x", "X"}
        oct == ~hex /\ Len(cs) >= 2 /\ cs[1] = "0"
        body == IF hex THEN SubSeq(cs, 3, Len(cs))
                ELSE IF oct THEN Tail(cs) ELSE cs
        val == Digits(body, IF hex THEN 16 ELSE IF oct THEN 8 ELSE 10, 0)
    IN [ok |-> body # <<>> /\ val >= 0, Value |-> val]

RECURSIVE Pow10(_)
Pow10(n) == IF n = 0 THEN 1 ELSE 10 * Pow10(n - 1)

\* big.Rat.SetString(text) for a decimal text with at most one point.
RatSetString(cs) ==
    LET dots == {k \in 1..Len(cs) : cs[k] = "."}
        whole == IF dots = {} THEN cs
                 ELSE SubSeq(cs, 1, (CHOOSE k \in dots : TRUE) - 1)
        frac == IF dots = {} THEN <<>>
                ELSE SubSeq(cs, (CHOOSE k \in dots : TRUE) + 1, Len(cs))
        num == Digits(whole \o frac, 10, 0)
    IN [ok |-> Cardinality(dots) <= 1 /\ whole \o frac # <<>> /\ num >= 0,
        Value |-> [num |-> num, den |-> Pow10(Len(frac))]]

\* The characters of a literal's text that are not written as themselves.
Backslash == "backslash"
SingleQuote == "quote"
DoubleQuote == "dquote"
BackQuote == "bquote"
CarriageReturn == "cr"
Newline == "nl"

\* The character an escape sequence of one character stands for.
EscapeValue(c, quote) ==
    CASE c = "n" -> Newline
      [] c = "r" -> CarriageReturn
      [] c = "t" -> "tab"
      [] c = Backslash -> Backslash
      [] c = quote -> quote
      [] OTHER -> "none"

\* strconv.UnquoteChar(cs, quote), for plain characters and the escape
\* sequences of one character: the character decoded and the tail left.
UnquoteChar(cs, quote) ==
    IF cs[1] = Backslash
    THEN [ok |-> Len(cs) >= 2 /\ EscapeValue(cs[2], quote) # "none",
          Value |-> IF Len(cs) >= 2 THEN EscapeValue(cs[2], quote) ELSE "none",
          tail |-> SubSeq(cs, 3, Len(cs))]
    ELSE [ok |-> cs[1] \notin {quote, Newline}, Value |-> cs[1], tail |-> Tail(cs)]

RECURSIVE UnquoteBody(_, _)
\* The loop of strconv.Unquote over the characters between the quotes.
UnquoteBody(cs, acc) ==
    IF cs = <<>> THEN [ok |-> TRUE, Value |-> acc]
    ELSE IF ~UnquoteChar(cs, DoubleQuote).ok THEN [ok |-> FALSE, Value |-> <<>>]
    ELSE UnquoteBody(UnquoteChar(cs, DoubleQuote).tail,
                     Append(acc, UnquoteChar(cs, DoubleQuote).Value))

\* strconv.Unquote(text) for a double-quoted text.
Unquote(cs) ==
    IF cs[1] # DoubleQuote \/ cs[Len(cs)] # DoubleQuote THEN [ok |-> FALSE, Value |-> <<>>]
    ELSE UnquoteBody(SubSeq(cs, 2, Len(cs) - 1), <<>>)

\* strings.Replace(s, "\r", "", -1)
StripCR(cs) == LET Keep(c) == c # CarriageReturn IN SelectSeq(cs, Keep)

parseIntegerLiteral(t, i) ==
    IF IntSetString(Text(t, i)).ok
    THEN Ok(next(i), [kind |-> "IntegerLiteral", Value |-> IntSetString(Text(t, i)).Value,
                      span |-> spanOf(i)])
    ELSE Raise(i, MalformedLiteral(t, i, "integer literal"))

parseFloatLiteral(t, i) ==
    IF RatSetString(Text(t, i)).ok
    THEN Ok(next(i), [kind |-> "FloatLiteral", Value |-> RatSetString(Text(t, i)).Value,
                      span |-> spanOf(i)])
    ELSE Raise(i, MalformedLiteral(t, i, "float literal"))

parseImaginaryLiteral(t, i) ==
    LET text == Text(t, i)
        body == SubSeq(text, 1, Len(text) - 1)
    IN IF Len(text) < 1 \/ text[Len(text)] # "i"
       THEN Raise(i, StringPanic("bad imaginary literal"))
       ELSE IF RatSetString(body).ok
       THEN Ok(next(i), [kind |-> "ImaginaryLiteral", Value |-> RatSetString(body).Value,
                         span |-> spanOf(i)])
       ELSE Raise(i, MalformedLiteral(t, i, "imaginary literal"))

parseStringLiteral(t, i) ==
    LET text == Text(t, i)
    IN IF Len(text) < 2 THEN Raise(i, StringPanic("bad string literal"))
       ELSE IF text[1] = BackQuote
       THEN Ok(next(i), [kind |-> "StringLiteral",
                         Value |-> StripCR(SubSeq(text, 2, Len(text) - 1)),
                         span |-> spanOf(i)])
       ELSE IF ~Unquote(text).ok THEN Raise(i, StringPanic("bad string literal"))
       ELSE Ok(next(i), [kind |-> "StringLiteral", Value |-> Unquote(text).Value,
                         span |-> spanOf(i)])

parseIdentifier(t, i) ==
    IF ~Expects(t, i, "Identifier") THEN expect(t, i, "Identifier")
    ELSE Ok(next(i), [kind |-> "Identifier", Name |-> Text(t, i), span |-> spanOf(i)])

parseRuneLiteral(t, i) ==
    LET text == Text(t, i)
    IN IF Len(text) < 3 THEN Raise(i, StringPanic("bad rune literal"))
       ELSE IF ~UnquoteChar(Tail(text), SingleQuote).ok
       THEN Raise(i, MalformedLiteral(t, i, "rune literal"))
       ELSE Ok(next(i), [kind |-> "RuneLiteral",
                         Value |-> UnquoteChar(Tail(text), SingleQuote).Value,
                         span |-> spanOf(i)])

(***************************************************************************)
(* Nodes.  A node is a record tagged with the name of its Go type; a field *)
(* left at its zero value holds NilNode, the empty sequence, FALSE or the  *)
(* zero Location.                                                          *)
(***************************************************************************)
\* token.Location{}
ZeroLoc == 0

TypeName(pkg, name, sp) == [kind |-> "TypeName", Package |-> pkg, Name |-> name, span |-> sp]
PointerType(ty, starLoc) == [kind |-> "PointerType", Type |-> ty, starLoc |-> starLoc]
ParameterDecl(ty, idents, dotDotDot) ==
    [kind |-> "ParameterDecl", Type |-> ty, Identifiers |-> idents, DotDotDot |-> dotDotDot]
ParameterList(params, openLoc, closeLoc) ==
    [kind |-> "ParameterList", Parameters |-> params, openLoc |-> openLoc, closeLoc |-> closeLoc]
Signature(params, result) == [kind |-> "Signature", Parameters |-> params, Result |-> result]
FieldDecl(idents, ty, tag) == [kind |-> "FieldDecl", Identifiers |-> idents, Type |-> ty, Tag |-> tag]
BinaryOp(op, opLoc, left, right) ==
    [kind |-> "BinaryOp", Op |-> op, opLoc |-> opLoc, Left |-> left, Right |-> right]
UnaryOp(op, opLoc, operand) == [kind |-> "UnaryOp", Op |-> op, opLoc |-> opLoc, Operand |-> operand]
Element(key, value) == [kind |-> "Element", Key |-> key, Value |-> value]

\* The nodes that embed a span.
Spanned ==
    {"TypeName", "Identifier", "IntegerLiteral", "FloatLiteral", "ImaginaryLiteral",
     "RuneLiteral", "StringLiteral"}

\* What Start and End leave when the method panics instead of returning: an
\* index into an empty slice, or a method call on a nil Type.
PanicLoc == -1

RECURSIVE Start(_)
RECURSIVE End(_)
\* Node.Start
Start(n) ==
    CASE n.kind \in Spanned -> n.span.start
      [] n.kind = "Declarations" -> IF Len(n.list) = 0 THEN PanicLoc ELSE Start(n.list[1])
      [] n.kind = "ConstSpec" -> Start(n.Names[1])
      [] n.kind = "TypeSpec" -> Start(n.Name)
      [] n.kind \in {"StructType", "InterfaceType"} -> n.keywordLoc
      [] n.kind \in {"FieldDecl", "ParameterDecl"} ->
            IF Len(n.Identifiers) > 0 THEN Start(n.Identifiers[1]) ELSE Start(n.Type)
      [] n.kind = "Method" -> Start(n.Name)
      [] n.kind = "FunctionType" -> Start(n.Signature)
      [] n.kind = "Signature" -> Start(n.Parameters)
      [] n.kind = "ParameterList" -> n.openLoc
      [] n.kind = "ChannelType" -> n.startLoc
      [] n.kind = "MapType" -> n.mapLoc
      [] n.kind \in {"ArrayType", "SliceType"} -> n.openLoc
      [] n.kind = "PointerType" -> n.starLoc
      [] n.kind = "CompositeLiteral" -> IF n.Type # NilNode THEN n.openLoc ELSE PanicLoc
      [] n.kind = "Element" -> IF n.Key # NilNode THEN Start(n.Key) ELSE Start(n.Value)
      [] n.kind \in {"Index", "Slice", "TypeAssertion", "Selector"} -> Start(n.Expression)
      [] n.kind = "Call" -> Start(n.Function)
      [] n.kind = "BinaryOp" -> Start(n.Left)
      [] n.kind = "UnaryOp" -> n.opLoc

\* Node.End
End(n) ==
    CASE n.kind \in Spanned -> n.span.end
      [] n.kind = "Declarations" ->
            IF Len(n.list) = 0 THEN PanicLoc ELSE End(n.list[Len(n.list)])
      [] n.kind = "ConstSpec" ->
            IF Len(n.Values) = 0 THEN PanicLoc ELSE End(n.Values[Len(n.Values)])
      [] n.kind = "TypeSpec" -> End(n.Type)
      [] n.kind \in {"StructType", "InterfaceType"} -> n.closeLoc
      [] n.kind = "FieldDecl" -> IF n.Tag # NilNode THEN End(n.Tag) ELSE End(n.Type)
      [] n.kind = "Method" -> End(n.Signature)
      [] n.kind = "FunctionType" -> End(n.Signature)
      [] n.kind = "Signature" -> End(n.Result)
      [] n.kind = "ParameterList" -> n.closeLoc
      [] n.kind \in {"ParameterDecl", "ChannelType", "MapType", "ArrayType", "SliceType",
                     "PointerType"} -> End(n.Type)
      [] n.kind \in {"CompositeLiteral", "Index", "Slice", "TypeAssertion", "Call"} -> n.closeLoc
      [] n.kind = "Element" -> End(n.Value)
      [] n.kind = "Selector" -> End(n.Selection)
      [] n.kind = "BinaryOp" -> End(n.Right)
      [] n.kind = "UnaryOp" -> End(n.Operand)

(***************************************************************************)
(* The grammar.  A grammar function takes the tokens and the cursor and    *)
(* leaves Ok(cursor, node) or Raise(cursor, panic value); a panic raised   *)
(* by a callee is what the caller leaves.                                  *)
(***************************************************************************)
\* The callee's result r is taken once; K is what the caller does with it.
Then(r, K(_)) == CHOOSE y \in {IF Failed(x) THEN x ELSE K(x) : x \in {r}} : TRUE

RECURSIVE parseType(_, _)
RECURSIVE parseStructTypeFields(_, _, _)
RECURSIVE parseInterfaceTypeMethods(_, _, _)
RECURSIVE parseSignature(_, _)
RECURSIVE parseParameterList(_, _)
RECURSIVE parseParameterListTail(_, _, _, _)
RECURSIVE parseTypeParameterList(_, _, _)
RECURSIVE parseDeclParameterList(_, _, _)
RECURSIVE parseArrayOrSliceType(_, _, _)
RECURSIVE parseExpression(_, _)
RECURSIVE parseBinaryExpr(_, _, _, _)
RECURSIVE parseBinaryExprLoop(_, _, _, _)
RECURSIVE parseUnaryExpr(_, _, _)
RECURSIVE parsePrimaryExprLoop(_, _, _, _)
RECURSIVE parseExpressionListFrom(_, _, _)
RECURSIVE parseCompositeLiteral(_, _)
RECURSIVE parseLiteralValue(_, _)
RECURSIVE parseLiteralValueElements(_, _, _)
RECURSIVE parseSelectorOrTypeAssertion(_, _, _, _)
RECURSIVE parseIdentifierListFrom(_, _, _)

typeFirst ==
    {"Identifier", "Star", "OpenBracket", "Struct", "Func", "Interface", "Map", "Chan",
     "LessMinus", "OpenParen"}

parseIdentifierListFrom(t, i, ids) ==
    Then(parseIdentifier(t, i), LAMBDA id :
        IF Tok(t, id.i) # "Comma" THEN Ok(id.i, Append(ids, id.v))
        ELSE parseIdentifierListFrom(t, next(id.i), Append(ids, id.v)))

parseIdentifierList(t, i) == parseIdentifierListFrom(t, i, <<>>)

parseTypeName(t, i) ==
    IF ~Expects(t, i, "Identifier") THEN expect(t, i, "Identifier")
    ELSE IF Tok(t, next(i)) # "Dot" THEN Ok(next(i), TypeName("", Text(t, i), spanOf(i)))
    ELSE LET j == next(next(i))
         IN IF ~Expects(t, j, "Identifier") THEN expect(t, j, "Identifier")
            ELSE Ok(next(j), TypeName(Text(t, i), Text(t, j), spanOf(i)))

parseArrayOrSliceType(t, i, dotDotDot) ==
    IF ~Expects(t, i, "OpenBracket") THEN expect(t, i, "OpenBracket")
    ELSE LET j == next(i)
         IN IF Tok(t, j) = "CloseBracket"
            THEN Then(parseType(t, next(j)), LAMBDA ty :
                     Ok(ty.i, [kind |-> "SliceType", Type |-> ty.v, openLoc |-> lexStart(i)]))
            ELSE Then(IF dotDotDot /\ Tok(t, j) = "DotDotDot" THEN Ok(next(j), NilNode)
                      ELSE parseExpression(t, j), LAMBDA size :
                     IF ~Expects(t, size.i, "CloseBracket") THEN expect(t, size.i, "CloseBracket")
                     ELSE Then(parseType(t, next(size.i)), LAMBDA ty :
                              Ok(ty.i, [kind |-> "ArrayType", Size |-> size.v, Type |-> ty.v,
                                        openLoc |-> lexStart(i)])))

parseMapType(t, i) ==
    IF ~Expects(t, i, "Map") THEN expect(t, i, "Map")
    ELSE IF ~Expects(t, next(i), "OpenBracket") THEN expect(t, next(i), "OpenBracket")
    ELSE Then(parseType(t, next(next(i))), LAMBDA key :
             IF ~Expects(t, key.i, "CloseBracket") THEN expect(t, key.i, "CloseBracket")
             ELSE Then(parseType(t, next(key.i)), LAMBDA ty :
                      Ok(ty.i, [kind |-> "MapType", Key |-> key.v, Type |-> ty.v,
                                mapLoc |-> lexStart(i)])))

parseChannelType(t, i) ==
    LET send == Tok(t, i) # "LessMinus"
        j == IF send THEN i ELSE next(i)
    IN IF ~Expects(t, j, "Chan") THEN expect(t, j, "Chan")
       ELSE LET receive == ~(send /\ Tok(t, next(j)) = "LessMinus")
                k == IF receive THEN next(j) ELSE next(next(j))
            IN Then(parseType(t, k), LAMBDA ty :
                   Ok(ty.i, [kind |-> "ChannelType", Send |-> send, Receive |-> receive,
                             Type |-> ty.v, startLoc |-> lexStart(i)]))

typeNameDecls(idents) ==
    [k \in 1..Len(idents) |->
        ParameterDecl(TypeName("", idents[k].Name, idents[k].span), <<>>, FALSE)]

parseTypeParameterList(t, i, pl) ==
    IF Tok(t, i) = "CloseParen" THEN Ok(i, pl)
    ELSE IF ~Expects(t, i, "Comma") THEN expect(t, i, "Comma")
    ELSE IF Tok(t, next(i)) = "CloseParen" THEN Ok(next(i), pl)
    ELSE LET dotDotDot == Tok(t, next(i)) = "DotDotDot"
             j == IF dotDotDot THEN next(next(i)) ELSE next(i)
         IN Then(parseType(t, j), LAMBDA ty :
                LET pl2 == [pl EXCEPT !.Parameters =
                                Append(@, ParameterDecl(ty.v, <<>>, dotDotDot))]
                IN IF dotDotDot THEN Ok(ty.i, pl2)
                   ELSE parseTypeParameterList(t, ty.i, pl2))

\* parseDeclParameterList taking declarations that are types alone.
parseDeclParameterListOfTypes(t, i, pl) == parseTypeParameterList(t, i, pl)

\* The loop over the identifiers of a declaration is parseIdentifierList's.
parseDeclParameterList(t, i, pl) ==
    IF Tok(t, i) = "CloseParen" THEN Ok(i, pl)
    ELSE IF ~Expects(t, i, "Comma") THEN expect(t, i, "Comma")
    ELSE IF Tok(t, next(i)) = "CloseParen" THEN Ok(next(i), pl)
    ELSE Then(parseIdentifierListFrom(t, next(i), <<>>), LAMBDA ids :
             LET dotDotDot == Tok(t, ids.i) = "DotDotDot"
                 j == IF dotDotDot THEN next(ids.i) ELSE ids.i
             IN Then(parseType(t, j), LAMBDA ty :
                    parseDeclParameterList(t, ty.i,
                        [pl EXCEPT !.Parameters =
                            Append(@, ParameterDecl(ty.v, ids.v, dotDotDot))])))

parseParameterListTail(t, i, pl, idents) ==
    CASE Tok(t, i) = "CloseParen" ->
            Ok(i, [pl EXCEPT !.closeLoc = lexStart(i), !.Parameters = typeNameDecls(idents)])
      [] Tok(t, i) = "Identifier" ->
            LET id == parseIdentifier(t, i).v
                j == next(i)
            IN CASE Tok(t, j) = "Comma" ->
                        parseParameterListTail(t, next(j), pl, Append(idents, id))
                 [] Tok(t, j) = "CloseParen" ->
                        parseParameterListTail(t, j, pl, Append(idents, id))
                 [] Tok(t, j) = "Dot" ->
                        IF ~Expects(t, next(j), "Identifier")
                        THEN expect(t, next(j), "Identifier")
                        ELSE parseTypeParameterList(t, next(next(j)),
                                [pl EXCEPT !.Parameters =
                                    Append(typeNameDecls(idents),
                                           ParameterDecl(TypeName(id.Name, Text(t, next(j)),
                                                             [start |-> id.span.start,
                                                              end |-> lexEnd(next(j))]),
                                                         <<>>, FALSE))])
                 [] OTHER ->
                        LET dotDotDot == Tok(t, j) = "DotDotDot"
                            k == IF dotDotDot THEN next(j) ELSE j
                        IN Then(parseType(t, k), LAMBDA ty :
                               LET pl2 == [pl EXCEPT !.Parameters =
                                              <<ParameterDecl(ty.v, Append(idents, id),
                                                              dotDotDot)>>]
                               IN IF dotDotDot THEN Ok(ty.i, pl2)
                                  ELSE parseDeclParameterList(t, ty.i, pl2))
      [] Tok(t, i) = "DotDotDot" ->
            Then(parseType(t, next(i)), LAMBDA ty :
                Ok(ty.i, [pl EXCEPT !.Parameters =
                             Append(typeNameDecls(idents), ParameterDecl(ty.v, <<>>, TRUE))]))
      [] Tok(t, i) \in typeFirst \ {"Identifier"} ->
            Then(parseType(t, i), LAMBDA ty :
                parseTypeParameterList(t, ty.i,
                    [pl EXCEPT !.Parameters =
                        Append(typeNameDecls(idents), ParameterDecl(ty.v, <<>>, FALSE))]))
      [] OTHER -> Raise(i, SyntaxError(t, i, <<")", "...", "identifier", "type">>))

parseParameterList(t, i) ==
    IF ~Expects(t, i, "OpenParen") THEN expect(t, i, "OpenParen")
    ELSE Then(parseParameterListTail(t, next(i), ParameterList(<<>>, lexStart(i), ZeroLoc), <<>>),
             LAMBDA pl :
                IF ~Expects(t, pl.i, "CloseParen") THEN expect(t, pl.i, "CloseParen")
                ELSE Ok(next(pl.i), [pl.v EXCEPT !.closeLoc = lexStart(pl.i)]))

parseSignature(t, i) ==
    Then(parseParameterList(t, i), LAMBDA ps :
        IF Tok(t, ps.i) = "OpenParen"
        THEN Then(parseParameterList(t, ps.i), LAMBDA rs : Ok(rs.i, Signature(ps.v, rs.v)))
        ELSE IF Tok(t, ps.i) \in typeFirst
        THEN Then(parseType(t, ps.i), LAMBDA ty :
                 Ok(ty.i, Signature(ps.v, ParameterList(<<ParameterDecl(ty.v, <<>>, FALSE)>>,
                                                        Start(ty.v), End(ty.v)))))
        ELSE Ok(ps.i, Signature(ps.v, ParameterList(<<>>, ZeroLoc, ZeroLoc))))

\* The tag that may close a field declaration (label tag of parseFieldDecl).
parseFieldDeclTag(t, i, d) ==
    IF Tok(t, i) = "StringLiteral"
    THEN Then(parseStringLiteral(t, i), LAMBDA tag : Ok(tag.i, [d EXCEPT !.Tag = tag.v]))
    ELSE Ok(i, d)

\* parseFieldDecl taking the identifier before a semicolon or a closing
\* brace for a field name.
parseFieldDeclNamed(t, i) ==
    IF Tok(t, i) = "Star"
    THEN Then(parseTypeName(t, next(i)), LAMBDA tn :
             parseFieldDeclTag(t, tn.i, FieldDecl(<<>>, PointerType(tn.v, ZeroLoc), NilNode)))
    ELSE Then(parseIdentifier(t, i), LAMBDA id :
        CASE Tok(t, id.i) = "Dot" ->
                LET j == next(id.i)
                IN IF ~Expects(t, j, "Identifier") THEN expect(t, j, "Identifier")
                   ELSE parseFieldDeclTag(t, next(j),
                            FieldDecl(<<>>, TypeName(id.v.Name, Text(t, j),
                                                     [start |-> id.v.span.start,
                                                      end |-> lexEnd(j)]), NilNode))
          [] Tok(t, id.i) = "StringLiteral" ->
                Then(parseStringLiteral(t, id.i), LAMBDA tag :
                    Ok(tag.i, FieldDecl(<<>>, TypeName("", id.v.Name, id.v.span), tag.v)))
          [] Tok(t, id.i) \in {"Semicolon", "CloseBrace"} ->
                Ok(id.i, FieldDecl(<<id.v>>, TypeName("", id.v.Name, id.v.span), NilNode))
          [] OTHER ->
                Then(IF Tok(t, id.i) = "Comma"
                     THEN parseIdentifierListFrom(t, next(id.i), <<id.v>>)
                     ELSE Ok(id.i, <<id.v>>), LAMBDA ids :
                    Then(parseType(t, ids.i), LAMBDA ty :
                        parseFieldDeclTag(t, ty.i, FieldDecl(ids.v, ty.v, NilNode)))))

parseFieldDecl(t, i) ==
    IF Tok(t, i) = "Star"
    THEN Then(parseTypeName(t, next(i)), LAMBDA tn :
             parseFieldDeclTag(t, tn.i, FieldDecl(<<>>, PointerType(tn.v, ZeroLoc), NilNode)))
    ELSE Then(parseIdentifier(t, i), LAMBDA id :
        CASE Tok(t, id.i) = "Dot" ->
                LET j == next(id.i)
                IN IF ~Expects(t, j, "Identifier") THEN expect(t, j, "Identifier")
                   ELSE parseFieldDeclTag(t, next(j),
                            FieldDecl(<<>>, TypeName(id.v.Name, Text(t, j),
                                                     [start |-> id.v.span.start,
                                                      end |-> lexEnd(j)]), NilNode))
          [] Tok(t, id.i) = "StringLiteral" ->
                Then(parseStringLiteral(t, id.i), LAMBDA tag :
                    Ok(tag.i, FieldDecl(<<>>, TypeName("", id.v.Name, id.v.span), tag.v)))
          [] Tok(t, id.i) \in {"Semicolon", "CloseBrace"} ->
                Ok(id.i, FieldDecl(<<>>, TypeName("", id.v.Name, id.v.span), NilNode))
          [] OTHER ->
                Then(IF Tok(t, id.i) = "Comma"
                     THEN parseIdentifierListFrom(t, next(id.i), <<id.v>>)
                     ELSE Ok(id.i, <<id.v>>), LAMBDA ids :
                    Then(parseType(t, ids.i), LAMBDA ty :
                        parseFieldDeclTag(t, ty.i, FieldDecl(ids.v, ty.v, NilNode)))))

parseStructTypeFields(t, i, fields) ==
    IF Tok(t, i) = "CloseBrace" THEN Ok(i, fields)
    ELSE Then(parseFieldDecl(t, i), LAMBDA field :
             IF Tok(t, field.i) = "CloseBrace"
             THEN parseStructTypeFields(t, field.i, Append(fields, field.v))
             ELSE IF ~Expects(t, field.i, "Semicolon") THEN expect(t, field.i, "Semicolon")
             ELSE parseStructTypeFields(t, next(field.i), Append(fields, field.v)))

parseStructType(t, i) ==
    IF ~Expects(t, i, "Struct") THEN expect(t, i, "Struct")
    ELSE IF ~Expects(t, next(i), "OpenBrace") THEN expect(t, next(i), "OpenBrace")
    ELSE Then(parseStructTypeFields(t, next(next(i)), <<>>), LAMBDA fields :
             IF ~Expects(t, fields.i, "CloseBrace") THEN expect(t, fields.i, "CloseBrace")
             ELSE Ok(next(fields.i),
                     [kind |-> "StructType", Fields |-> fields.v,
                      keywordLoc |-> lexStart(i), closeLoc |-> lexStart(fields.i)]))

parseInterfaceTypeMethods(t, i, methods) ==
    IF Tok(t, i) = "CloseBrace" THEN Ok(i, methods)
    ELSE Then(parseIdentifier(t, i), LAMBDA id :
        Then(CASE Tok(t, id.i) = "OpenParen" ->
                    Then(parseSignature(t, id.i), LAMBDA sig :
                        Ok(sig.i, [kind |-> "Method", Name |-> id.v, Signature |-> sig.v]))
               [] Tok(t, id.i) = "Dot" ->
                    LET j == next(id.i)
                    IN IF ~Expects(t, j, "Identifier") THEN expect(t, j, "Identifier")
                       ELSE Ok(next(j), TypeName(id.v.Name, Text(t, j),
                                                 [start |-> id.v.span.start,
                                                  end |-> lexEnd(j)]))
               [] OTHER -> Ok(id.i, TypeName("", id.v.Name, id.v.span)),
             LAMBDA m :
                IF Tok(t, m.i) = "CloseBrace"
                THEN parseInterfaceTypeMethods(t, m.i, Append(methods, m.v))
                ELSE IF ~Expects(t, m.i, "Semicolon") THEN expect(t, m.i, "Semicolon")
                ELSE parseInterfaceTypeMethods(t, next(m.i), Append(methods, m.v))))

parseInterfaceType(t, i) ==
    IF ~Expects(t, i, "Interface") THEN expect(t, i, "Interface")
    ELSE IF ~Expects(t, next(i), "OpenBrace") THEN expect(t, next(i), "OpenBrace")
    ELSE Then(parseInterfaceTypeMethods(t, next(next(i)), <<>>), LAMBDA methods :
             IF ~Expects(t, methods.i, "CloseBrace") THEN expect(t, methods.i, "CloseBrace")
             ELSE Ok(next(methods.i),
                     [kind |-> "InterfaceType", Methods |-> methods.v,
                      keywordLoc |-> lexStart(i), closeLoc |-> lexStart(methods.i)]))

parseType(t, i) ==
    CASE Tok(t, i) = "Identifier" -> parseTypeName(t, i)
      [] Tok(t, i) = "Star" ->
            Then(parseType(t, next(i)), LAMBDA ty : Ok(ty.i, PointerType(ty.v, lexStart(i))))
      [] Tok(t, i) = "OpenBracket" -> parseArrayOrSliceType(t, i, FALSE)
      [] Tok(t, i) = "Struct" -> parseStructType(t, i)
      [] Tok(t, i) = "Func" ->
            Then(parseSignature(t, next(i)), LAMBDA sig :
                Ok(sig.i, [kind |-> "FunctionType", Signature |-> sig.v]))
      [] Tok(t, i) = "Interface" -> parseInterfaceType(t, i)
      [] Tok(t, i) = "Map" -> parseMapType(t, i)
      [] Tok(t, i) \in {"Chan", "LessMinus"} -> parseChannelType(t, i)
      [] Tok(t, i) = "OpenParen" ->
            Then(parseType(t, next(i)), LAMBDA ty :
                IF ~Expects(t, ty.i, "CloseParen") THEN expect(t, ty.i, "CloseParen")
                ELSE Ok(next(ty.i), ty.v))
      [] OTHER ->
            Raise(i, SyntaxError(t, i, <<"Identifier", "Star", "OpenBracket", "Struct", "Func",
                                         "Interface", "Map", "Chan", "LessMinus", "OpenParen">>))

(***************************************************************************)
(* Expressions.                                                            *)
(***************************************************************************)
expressionFirst ==
    {"Plus", "Minus", "Bang", "Carrot", "Star", "And", "LessMinus",
     "Identifier", "OpenBracket", "Struct", "Func", "Interface", "Map", "Chan", "OpenParen",
     "IntegerLiteral", "FloatLiteral", "ImaginaryLiteral", "RuneLiteral", "StringLiteral"}

\* Every binary operator at one level.
precedenceFlat ==
    [op \in {"OrOr", "AndAnd", "EqualEqual", "BangEqual", "Less", "LessEqual", "Greater",
             "GreaterEqual", "Plus", "Minus", "Or", "Carrot", "Star", "Divide", "Percent",
             "LessLess", "GreaterGreater", "And", "AndCarrot"} |-> 1]

precedence ==
    ("OrOr" :> 1) @@ ("AndAnd" :> 2)
    @@ ("EqualEqual" :> 3) @@ ("BangEqual" :> 3) @@ ("Less" :> 3) @@ ("LessEqual" :> 3)
    @@ ("Greater" :> 3) @@ ("GreaterEqual" :> 3)
    @@ ("Plus" :> 4) @@ ("Minus" :> 4) @@ ("Or" :> 4) @@ ("Carrot" :> 4)
    @@ ("Star" :> 5) @@ ("Divide" :> 5) @@ ("Percent" :> 5) @@ ("LessLess" :> 5)
    @@ ("GreaterGreater" :> 5) @@ ("And" :> 5) @@ ("AndCarrot" :> 5)

unary == {"Plus", "Minus", "Bang", "Carrot", "Star", "And", "LessMinus"}

\* left.(*TypeAssertion) with a nil Type: a type switch guard.
IsTypeGuard(e) == e.kind = "TypeAssertion" /\ e.Type = NilNode

parseExpressionOpts(t, i, typeSwitch) == parseBinaryExpr(t, i, 1, typeSwitch)

parseExpression(t, i) == parseExpressionOpts(t, i, FALSE)

\* A loop whose recursive call keeps the operator's own level.
parseBinaryExprLoopSameLevel(t, i, prec, left) ==
    IF Tok(t, i) \notin DOMAIN precedence \/ precedence[Tok(t, i)] < prec THEN Ok(i, left)
    ELSE Then(parseBinaryExpr(t, next(i), precedence[Tok(t, i)], FALSE), LAMBDA right :
             parseBinaryExprLoop(t, right.i, prec,
                                 BinaryOp(Tok(t, i), lexStart(i), left, right.v)))

\* The for loop of parseBinaryExpr, entered with the left operand parsed.
parseBinaryExprLoop(t, i, prec, left) ==
    IF Tok(t, i) \notin DOMAIN precedence \/ precedence[Tok(t, i)] < prec THEN Ok(i, left)
    ELSE Then(parseBinaryExpr(t, next(i), precedence[Tok(t, i)] + 1, FALSE), LAMBDA right :
             parseBinaryExprLoop(t, right.i, prec,
                                 BinaryOp(Tok(t, i), lexStart(i), left, right.v)))

parseBinaryExpr(t, i, prec, typeSwitch) ==
    Then(parseUnaryExpr(t, i, typeSwitch), LAMBDA left :
        IF IsTypeGuard(left.v)
        THEN IF ~typeSwitch
             THEN Raise(left.i, StringPanic("parsed a disallowed type switch guard"))
             ELSE left
        ELSE parseBinaryExprLoop(t, left.i, prec, left.v))

\* parseSliceHighMax taking a capacity after an omitted upper bound.
parseSliceHighMaxLoose(t, i, left, low) ==
    IF ~Expects(t, i, "Colon") THEN expect(t, i, "Colon")
    ELSE LET sl == [kind |-> "Slice", Expression |-> left, Low |-> low, High |-> NilNode,
                    Max |-> NilNode, openLoc |-> ZeroLoc, closeLoc |-> ZeroLoc]
             Close(j, s) ==
                IF ~Expects(t, j, "CloseBracket") THEN expect(t, j, "CloseBracket")
                ELSE Ok(next(j), [s EXCEPT !.closeLoc = lexStart(j)])
         IN CASE Tok(t, next(i)) = "CloseBracket" -> Close(next(i), sl)
              [] Tok(t, next(i)) = "Colon" ->
                    Then(parseExpression(t, next(next(i))), LAMBDA max :
                        Close(max.i, [sl EXCEPT !.Max = max.v]))
              [] OTHER ->
                    Then(parseExpression(t, next(i)), LAMBDA high :
                        IF Tok(t, high.i) # "Colon"
                        THEN Close(high.i, [sl EXCEPT !.High = high.v])
                        ELSE Then(parseExpression(t, next(high.i)), LAMBDA max :
                                 Close(max.i, [sl EXCEPT !.High = high.v, !.Max = max.v])))

parseSliceHighMax(t, i, left, low) ==
    IF ~Expects(t, i, "Colon") THEN expect(t, i, "Colon")
    ELSE LET sl == [kind |-> "Slice", Expression |-> left, Low |-> low, High |-> NilNode,
                    Max |-> NilNode, openLoc |-> ZeroLoc, closeLoc |-> ZeroLoc]
             Close(j, s) ==
                IF ~Expects(t, j, "CloseBracket") THEN expect(t, j, "CloseBracket")
                ELSE Ok(next(j), [s EXCEPT !.closeLoc = lexStart(j)])
         IN IF Tok(t, next(i)) = "CloseBracket" THEN Close(next(i), sl)
            ELSE Then(parseExpression(t, next(i)), LAMBDA high :
                     IF Tok(t, high.i) # "Colon"
                     THEN Close(high.i, [sl EXCEPT !.High = high.v])
                     ELSE Then(parseExpression(t, next(high.i)), LAMBDA max :
                              Close(max.i, [sl EXCEPT !.High = high.v, !.Max = max.v])))

\* parseSliceOrIndex taking an index whose closing bracket is missing.
parseSliceOrIndexLenient(t, i, left) ==
    IF ~Expects(t, i, "OpenBracket") THEN expect(t, i, "OpenBracket")
    ELSE IF Tok(t, next(i)) = "Colon"
    THEN Then(parseSliceHighMax(t, next(i), left, NilNode), LAMBDA sl :
             Ok(sl.i, [sl.v EXCEPT !.openLoc = lexStart(i)]))
    ELSE Then(parseExpression(t, next(i)), LAMBDA e :
        CASE Tok(t, e.i) = "Colon" ->
                Then(parseSliceHighMax(t, e.i, left, e.v), LAMBDA sl :
                    Ok(sl.i, [sl.v EXCEPT !.openLoc = lexStart(i)]))
          [] OTHER ->
                Ok(IF Tok(t, e.i) = "CloseBracket" THEN next(e.i) ELSE e.i,
                   [kind |-> "Index", Expression |-> left, Index |-> e.v,
                    openLoc |-> lexStart(i), closeLoc |-> lexEnd(e.i)]))

parseSliceOrIndex(t, i, left) ==
    IF ~Expects(t, i, "OpenBracket") THEN expect(t, i, "OpenBracket")
    ELSE IF Tok(t, next(i)) = "Colon"
    THEN Then(parseSliceHighMax(t, next(i), left, NilNode), LAMBDA sl :
             Ok(sl.i, [sl.v EXCEPT !.openLoc = lexStart(i)]))
    ELSE Then(parseExpression(t, next(i)), LAMBDA e :
        CASE Tok(t, e.i) = "CloseBracket" ->
                Ok(next(e.i), [kind |-> "Index", Expression |-> left, Index |-> e.v,
                               openLoc |-> lexStart(i), closeLoc |-> lexEnd(e.i)])
          [] Tok(t, e.i) = "Colon" ->
                Then(parseSliceHighMax(t, e.i, left, e.v), LAMBDA sl :
                    Ok(sl.i, [sl.v EXCEPT !.openLoc = lexStart(i)]))
          [] OTHER -> Raise(e.i, SyntaxError(t, e.i, <<"CloseBracket", "Colon">>)))

parseExpressionListFrom(t, i, exprs) ==
    Then(parseExpression(t, i), LAMBDA e :
        IF Tok(t, e.i) # "Comma" THEN Ok(e.i, Append(exprs, e.v))
        ELSE parseExpressionListFrom(t, next(e.i), Append(exprs, e.v)))

parseExpressionList(t, i) == parseExpressionListFrom(t, i, <<>>)

parseCall(t, i, left) ==
    IF ~Expects(t, i, "OpenParen") THEN expect(t, i, "OpenParen")
    ELSE LET Close(j, args, dotDotDot) ==
                IF ~Expects(t, j, "CloseParen") THEN expect(t, j, "CloseParen")
                ELSE Ok(next(j), [kind |-> "Call", Function |-> left, Arguments |-> args,
                                  DotDotDot |-> dotDotDot, openLoc |-> lexStart(i),
                                  closeLoc |-> lexEnd(j)])
         IN IF Tok(t, next(i)) = "CloseParen" THEN Close(next(i), <<>>, FALSE)
            ELSE Then(parseExpressionList(t, next(i)), LAMBDA args :
                     IF Tok(t, args.i) = "DotDotDot" THEN Close(next(args.i), args.v, TRUE)
                     ELSE Close(args.i, args.v, FALSE))

parseSelectorOrTypeAssertion(t, i, left, typeSwitch) ==
    IF ~Expects(t, i, "Dot") THEN expect(t, i, "Dot")
    ELSE LET j == next(i)
         IN CASE Tok(t, j) = "OpenParen" ->
                    Then(IF typeSwitch /\ Tok(t, next(j)) = "Type" THEN Ok(next(next(j)), NilNode)
                         ELSE parseType(t, next(j)), LAMBDA ty :
                        IF ~Expects(t, ty.i, "CloseParen") THEN expect(t, ty.i, "CloseParen")
                        ELSE Ok(next(ty.i), [kind |-> "TypeAssertion", Expression |-> left,
                                             Type |-> ty.v, dotLoc |-> lexStart(i),
                                             closeLoc |-> lexStart(ty.i)]))
              [] Tok(t, j) = "Identifier" ->
                    Then(parseIdentifier(t, j), LAMBDA id :
                        LET sel == [kind |-> "Selector", Expression |-> left,
                                    Selection |-> id.v, dotLoc |-> lexStart(i)]
                        IN IF Tok(t, id.i) = "Dot"
                           THEN parseSelectorOrTypeAssertion(t, id.i, sel, typeSwitch)
                           ELSE Ok(id.i, sel))
              [] OTHER -> Raise(j, SyntaxError(t, j, <<"OpenParen", "Identifier">>))

parseElement(t, i) ==
    IF Tok(t, i) = "OpenBrace"
    THEN Then(parseLiteralValue(t, i), LAMBDA v : Ok(v.i, Element(NilNode, v.v)))
    ELSE Then(parseExpression(t, i), LAMBDA expr :
             IF Tok(t, expr.i) # "Colon" THEN Ok(expr.i, Element(NilNode, expr.v))
             ELSE Then(IF Tok(t, next(expr.i)) = "OpenBrace"
                       THEN parseLiteralValue(t, next(expr.i))
                       ELSE parseExpression(t, next(expr.i)), LAMBDA v :
                      Ok(v.i, Element(expr.v, v.v))))

parseLiteralValueElements(t, i, elements) ==
    IF Tok(t, i) = "CloseBrace" THEN Ok(i, elements)
    ELSE Then(parseElement(t, i), LAMBDA e :
             IF Tok(t, e.i) # "Comma" THEN Ok(e.i, Append(elements, e.v))
             ELSE parseLiteralValueElements(t, next(e.i), Append(elements, e.v)))

parseLiteralValue(t, i) ==
    IF ~Expects(t, i, "OpenBrace") THEN expect(t, i, "OpenBrace")
    ELSE Then(parseLiteralValueElements(t, next(i), <<>>), LAMBDA elements :
             IF ~Expects(t, elements.i, "CloseBrace") THEN expect(t, elements.i, "CloseBrace")
             ELSE Ok(next(elements.i),
                     [kind |-> "CompositeLiteral", Type |-> NilNode, Elements |-> elements.v,
                      openLoc |-> lexStart(i), closeLoc |-> lexStart(elements.i)]))

parseCompositeLiteral(t, i) ==
    Then(IF Tok(t, i) = "OpenBracket" THEN parseArrayOrSliceType(t, i, TRUE)
         ELSE parseType(t, i), LAMBDA typ :
        Then(parseLiteralValue(t, typ.i), LAMBDA lit : Ok(lit.i, [lit.v EXCEPT !.Type = typ.v])))

parseOperand(t, i, typeSwitch) ==
    CASE Tok(t, i) = "Identifier" ->
            Then(parseIdentifier(t, i), LAMBDA id :
                IF Tok(t, id.i) = "Dot"
                THEN parseSelectorOrTypeAssertion(t, id.i, id.v, typeSwitch)
                ELSE id)
      [] Tok(t, i) = "IntegerLiteral" -> parseIntegerLiteral(t, i)
      [] Tok(t, i) = "FloatLiteral" -> parseFloatLiteral(t, i)
      [] Tok(t, i) = "ImaginaryLiteral" -> parseImaginaryLiteral(t, i)
      [] Tok(t, i) = "RuneLiteral" -> parseRuneLiteral(t, i)
      [] Tok(t, i) = "StringLiteral" -> parseStringLiteral(t, i)
      [] Tok(t, i) \in {"Struct", "Map", "OpenBracket"} -> parseCompositeLiteral(t, i)
      [] Tok(t, i) = "OpenParen" ->
            Then(parseExpression(t, next(i)), LAMBDA e :
                IF ~Expects(t, e.i, "CloseParen") THEN expect(t, e.i, "CloseParen")
                ELSE Ok(next(e.i), e.v))
      [] OTHER -> Raise(i, SyntaxError(t, i, <<"operand">>))

\* The for loop of parsePrimaryExpr, entered with the operand parsed.
parsePrimaryExprLoop(t, i, typeSwitch, left) ==
    CASE Tok(t, i) = "OpenBracket" ->
            Then(parseSliceOrIndex(t, i, left), LAMBDA e :
                parsePrimaryExprLoop(t, e.i, typeSwitch, e.v))
      [] Tok(t, i) = "OpenParen" ->
            Then(parseCall(t, i, left), LAMBDA e :
                parsePrimaryExprLoop(t, e.i, typeSwitch, e.v))
      [] Tok(t, i) = "Dot" ->
            Then(parseSelectorOrTypeAssertion(t, i, left, typeSwitch), LAMBDA e :
                parsePrimaryExprLoop(t, e.i, typeSwitch, e.v))
      [] OTHER -> Ok(i, left)

parsePrimaryExpr(t, i, typeSwitch) ==
    Then(parseOperand(t, i, typeSwitch), LAMBDA left :
        parsePrimaryExprLoop(t, left.i, typeSwitch, left.v))

\* A prefix operator that takes a whole binary expression as its operand.
parseUnaryExprWide(t, i, typeSwitch) ==
    IF Tok(t, i) \in unary
    THEN Then(parseExpression(t, next(i)), LAMBDA operand :
             Ok(operand.i, UnaryOp(Tok(t, i), lexStart(i), operand.v)))
    ELSE parsePrimaryExpr(t, i, typeSwitch)

parseUnaryExpr(t, i, typeSwitch) ==
    IF Tok(t, i) \in unary
    THEN Then(parseUnaryExpr(t, next(i), FALSE), LAMBDA operand :
             Ok(operand.i, UnaryOp(Tok(t, i), lexStart(i), operand.v)))
    ELSE parsePrimaryExpr(t, i, typeSwitch)

(***************************************************************************)
(* Declarations and the entry point.                                       *)
(***************************************************************************)
RECURSIVE parseVarDeclSpecs(_, _, _)
RECURSIVE parseConstDeclSpecs(_, _, _)
RECURSIVE parseTypeDeclSpecs(_, _, _)

Declarations(decls) == [kind |-> "Declarations", list |-> decls]

parseTypeSpec(t, i) ==
    Then(parseIdentifier(t, i), LAMBDA name :
        Then(parseType(t, name.i), LAMBDA ty :
            Ok(ty.i, [kind |-> "TypeSpec", Name |-> name.v, Type |-> ty.v])))

parseTypeDeclSpecs(t, i, decls) ==
    IF Tok(t, i) = "CloseParen" THEN Ok(next(i), Declarations(decls))
    ELSE Then(parseTypeSpec(t, i), LAMBDA ts :
             parseTypeDeclSpecs(t, IF Tok(t, ts.i) = "Semicolon" THEN next(ts.i) ELSE ts.i,
                                Append(decls, ts.v)))

parseTypeDecl(t, i) ==
    IF ~Expects(t, i, "Type") THEN expect(t, i, "Type")
    ELSE IF Tok(t, next(i)) # "OpenParen"
    THEN Then(parseTypeSpec(t, next(i)), LAMBDA ts : Ok(ts.i, Declarations(<<ts.v>>)))
    ELSE parseTypeDeclSpecs(t, next(next(i)), <<>>)

parseConstSpec(t, i) ==
    Then(parseIdentifierList(t, i), LAMBDA names :
        Then(IF Tok(t, names.i) \in typeFirst THEN parseType(t, names.i)
             ELSE Ok(names.i, NilNode), LAMBDA ty :
            Then(IF Tok(t, ty.i) = "Equal" THEN parseExpressionList(t, next(ty.i))
                 ELSE Ok(ty.i, <<>>), LAMBDA values :
                Ok(values.i, [kind |-> "ConstSpec", Names |-> names.v, Type |-> ty.v,
                              Values |-> values.v]))))

parseConstDeclSpecs(t, i, decls) ==
    IF Tok(t, i) = "CloseParen" THEN Ok(next(i), Declarations(decls))
    ELSE Then(parseConstSpec(t, i), LAMBDA cs :
             parseConstDeclSpecs(t, IF Tok(t, cs.i) = "Semicolon" THEN next(cs.i) ELSE cs.i,
                                 Append(decls, cs.v)))

parseConstDecl(t, i) ==
    IF ~Expects(t, i, "Const") THEN expect(t, i, "Const")
    ELSE IF Tok(t, next(i)) # "OpenParen"
    THEN Then(parseConstSpec(t, next(i)), LAMBDA cs : Ok(cs.i, Declarations(<<cs.v>>)))
    ELSE parseConstDeclSpecs(t, next(next(i)), <<>>)

parseVarSpec(t, i) ==
    Then(parseIdentifierList(t, i), LAMBDA names :
        LET vs == [kind |-> "VarSpec", Names |-> names.v, Type |-> NilNode, Values |-> <<>>]
            Values(j, s) ==
                IF ~Expects(t, j, "Equal") THEN expect(t, j, "Equal")
                ELSE Then(parseExpressionList(t, next(j)), LAMBDA values :
                         Ok(values.i, [s EXCEPT !.Values = values.v]))
        IN IF Tok(t, names.i) \in typeFirst
           THEN Then(parseType(t, names.i), LAMBDA ty :
                    IF Tok(t, ty.i) # "Equal" THEN Ok(ty.i, [vs EXCEPT !.Type = ty.v])
                    ELSE Values(ty.i, [vs EXCEPT !.Type = ty.v]))
           ELSE Values(names.i, vs))

parseVarDeclSpecs(t, i, decls) ==
    IF Tok(t, i) = "CloseParen" THEN Ok(next(i), Declarations(decls))
    ELSE Then(parseVarSpec(t, i), LAMBDA vs :
             parseVarDeclSpecs(t, IF Tok(t, vs.i) = "Semicolon" THEN next(vs.i) ELSE vs.i,
                               Append(decls, vs.v)))

parseVarDecl(t, i) ==
    IF ~Expects(t, i, "Var") THEN expect(t, i, "Var")
    ELSE IF Tok(t, next(i)) # "OpenParen"
    THEN Then(parseVarSpec(t, next(i)), LAMBDA vs : Ok(vs.i, Declarations(<<vs.v>>)))
    ELSE parseVarDeclSpecs(t, next(next(i)), <<>>)

parseDeclarations(t, i) ==
    CASE Tok(t, i) = "Type" -> parseTypeDecl(t, i)
      [] Tok(t, i) = "Const" -> parseConstDecl(t, i)
      [] Tok(t, i) = "Var" -> parseVarDecl(t, i)
      [] OTHER -> Raise(i, SyntaxError(t, i, <<"type", "const", "var">>))

(***************************************************************************)
(* Statements.  A nil Statement is NilNode; the options of parseSimpleStmt  *)
(* are "none", "labelOK", "rangeOK" and "guardOK".                          *)
(***************************************************************************)
RECURSIVE parse(_, _, _)
RECURSIVE parseStatement(_, _)
RECURSIVE parseBlockStatements(_, _, _)
RECURSIVE parseIf(_, _)
RECURSIVE parseExpressionListOrTypeGuardFrom(_, _, _)

assignOps ==
    <<"Equal", "PlusEqual", "MinusEqual", "OrEqual", "CarrotEqual", "StarEqual", "DivideEqual",
      "PercentEqual", "LessLessEqual", "GreaterGreaterEqual", "AndEqual", "AndCarrotEqual">>

assignOp == {assignOps[k] : k \in 1..Len(assignOps)}

\* options: what parseSimpleStmt may return beyond a simple statement.
options == {"none", "labelOK", "rangeOK", "guardOK"}

\* expectAssign taking the := token for an assignment operator.
expectAssignOrDefine(t, i) ==
    IF Tok(t, i) \in assignOp \cup {"ColonEqual"} THEN Ok(i, Tok(t, i))
    ELSE Raise(i, SyntaxError(t, i, assignOps))

expectAssign(t, i) ==
    IF Tok(t, i) \in assignOp THEN Ok(i, Tok(t, i)) ELSE Raise(i, SyntaxError(t, i, assignOps))

\* A loop that never ends: the call does not return and raises nothing that
\* a recover could catch.
Diverges(i) == Raise(i, [kind |-> "diverges"])

\* The loop taking a type switch guard at every position of the list.
parseExpressionListOrTypeGuardAnywhere(t, i, exprs) ==
    Then(parseExpressionOpts(t, i, TRUE), LAMBDA e :
        IF e.v.kind = "TypeAssertion" /\ e.v.Type = NilNode
        THEN IF Len(exprs) + 1 > 1
             THEN Raise(e.i, StringPanic("parsed disallowed type switch guard"))
             ELSE Ok(e.i, Append(exprs, e.v))
        ELSE IF Tok(t, e.i) # "Comma" THEN Ok(e.i, Append(exprs, e.v))
        ELSE parseExpressionListOrTypeGuardFrom(t, next(e.i), Append(exprs, e.v)))

\* The loop of parseExpressionListOrTypeGuard.
parseExpressionListOrTypeGuardFrom(t, i, exprs) ==
    Then(parseExpressionOpts(t, i, Len(exprs) = 0), LAMBDA e :
        IF e.v.kind = "TypeAssertion" /\ e.v.Type = NilNode
        THEN IF Len(exprs) + 1 > 1
             THEN Raise(e.i, StringPanic("parsed disallowed type switch guard"))
             ELSE Ok(e.i, Append(exprs, e.v))
        ELSE IF Tok(t, e.i) # "Comma" THEN Ok(e.i, Append(exprs, e.v))
        ELSE parseExpressionListOrTypeGuardFrom(t, next(e.i), Append(exprs, e.v)))

parseExpressionListOrTypeGuard(t, i) == parseExpressionListOrTypeGuardFrom(t, i, <<>>)

\* parseAssignmentTail taking a range clause after any assignment operator.
parseAssignmentTailAnyOp(t, i, exprs, rangeOK) ==
    Then(expectAssign(t, i), LAMBDA op :
        LET asg(right) == [kind |-> "Assignment", Op |-> op.v, Left |-> exprs, Right |-> right]
        IN IF rangeOK /\ Tok(t, next(i)) = "Range"
           THEN Then(parse("Expression", t, next(next(i))), LAMBDA e :
                    Ok(e.i, [kind |-> "rangeClause", Statement |-> asg(<<e.v>>)]))
           ELSE Then(parse("ExpressionList", t, next(i)), LAMBDA right : Ok(right.i, asg(right.v))))

parseAssignmentTail(t, i, exprs, rangeOK) ==
    Then(expectAssign(t, i), LAMBDA op :
        LET asg(right) == [kind |-> "Assignment", Op |-> op.v, Left |-> exprs, Right |-> right]
        IN IF rangeOK /\ op.v = "Equal" /\ Tok(t, next(i)) = "Range"
           THEN Then(parse("Expression", t, next(next(i))), LAMBDA e :
                    Ok(e.i, [kind |-> "rangeClause", Statement |-> asg(<<e.v>>)]))
           ELSE Then(parse("ExpressionList", t, next(i)), LAMBDA right : Ok(right.i, asg(right.v))))

\* parseShortVarDeclTail taking a range clause under every option.
parseShortVarDeclTailAnyOpts(t, i, ids, opts) ==
    IF ~Expects(t, i, "ColonEqual") THEN expect(t, i, "ColonEqual")
    ELSE LET decl(right) == [kind |-> "ShortVarDecl", Left |-> ids, Right |-> right]
         IN IF Tok(t, next(i)) = "Range"
            THEN Then(parse("Expression", t, next(next(i))), LAMBDA e :
                     Ok(e.i, [kind |-> "rangeClause", Statement |-> decl(<<e.v>>)]))
            ELSE Then(parse("ExpressionList", t, next(i)), LAMBDA right :
                     Ok(right.i, decl(right.v)))

parseShortVarDeclTail(t, i, ids, opts) ==
    IF ~Expects(t, i, "ColonEqual") THEN expect(t, i, "ColonEqual")
    ELSE LET decl(right) == [kind |-> "ShortVarDecl", Left |-> ids, Right |-> right]
         IN IF opts = "rangeOK" /\ Tok(t, next(i)) = "Range"
            THEN Then(parse("Expression", t, next(next(i))), LAMBDA e :
                     Ok(e.i, [kind |-> "rangeClause", Statement |-> decl(<<e.v>>)]))
            ELSE Then(IF opts = "guardOK" THEN parseExpressionListOrTypeGuard(t, next(i))
                      ELSE parse("ExpressionList", t, next(i)), LAMBDA right :
                     Ok(right.i, decl(right.v)))

parseSimpleStmt(t, i, opts) ==
    IF Tok(t, i) \notin expressionFirst THEN Ok(i, NilNode)
    ELSE Then(parse("Expression", t, i), LAMBDA expr :
        LET j == expr.i
            isID == expr.v.kind = "Identifier"
        IN CASE Tok(t, j) = "LessMinus" ->
                    Then(parse("Expression", t, next(j)), LAMBDA e :
                        Ok(e.i, [kind |-> "SendStmt", Channel |-> expr.v, Expression |-> e.v]))
             [] Tok(t, j) \in {"MinusMinus", "PlusPlus"} ->
                    Ok(next(j), [kind |-> "IncDecStmt", Expression |-> expr.v,
                                 Op |-> Tok(t, j), opEnd |-> lexEnd(j)])
             [] Tok(t, j) \in assignOp ->
                    parseAssignmentTail(t, j, <<expr.v>>, opts = "rangeOK")
             [] Tok(t, j) = "Comma" ->
                    Then(parse("ExpressionList", t, next(j)), LAMBDA rest :
                        LET exprs == <<expr.v>> \o rest.v
                        IN IF (\A k \in 1..Len(exprs) : exprs[k].kind = "Identifier")
                              /\ Tok(t, rest.i) = "ColonEqual"
                           THEN parseShortVarDeclTail(t, rest.i, exprs,
                                    IF opts = "guardOK" THEN "none" ELSE opts)
                           ELSE parseAssignmentTail(t, rest.i, exprs, opts = "rangeOK"))
             [] isID /\ Tok(t, j) = "ColonEqual" ->
                    parseShortVarDeclTail(t, j, <<expr.v>>, opts)
             [] opts = "labelOK" /\ isID /\ Tok(t, j) = "Colon" ->
                    Then(parseStatement(t, next(j)), LAMBDA st :
                        Ok(st.i, [kind |-> "LabeledStmt", Label |-> expr.v,
                                  Statement |-> st.v]))
             [] OTHER -> Ok(j, [kind |-> "ExpressionStmt", Expression |-> expr.v]))

parseBreak(t, i) ==
    IF ~Expects(t, i, "Break") THEN expect(t, i, "Break")
    ELSE Then(IF Tok(t, next(i)) = "Identifier" THEN parseIdentifier(t, next(i))
              ELSE Ok(next(i), NilNode), LAMBDA l :
             Ok(l.i, [kind |-> "BreakStmt", startLoc |-> lexStart(i), Label |-> l.v]))

parseContinue(t, i) ==
    IF ~Expects(t, i, "Continue") THEN expect(t, i, "Continue")
    ELSE Then(IF Tok(t, next(i)) = "Identifier" THEN parseIdentifier(t, next(i))
              ELSE Ok(next(i), NilNode), LAMBDA l :
             Ok(l.i, [kind |-> "ContinueStmt", startLoc |-> lexStart(i), Label |-> l.v]))

parseGoto(t, i) ==
    IF ~Expects(t, i, "Goto") THEN expect(t, i, "Goto")
    ELSE Then(parseIdentifier(t, next(i)), LAMBDA l :
             Ok(l.i, [kind |-> "GotoStmt", startLoc |-> lexStart(i), Label |-> l.v]))

parseReturn(t, i) ==
    IF ~Expects(t, i, "Return") THEN expect(t, i, "Return")
    ELSE Then(IF Tok(t, next(i)) \in expressionFirst THEN parse("ExpressionList", t, next(i))
              ELSE Ok(next(i), <<>>), LAMBDA exprs :
             Ok(exprs.i, [kind |-> "ReturnStmt", startLoc |-> lexStart(i),
                          endLoc |-> IF Len(exprs.v) = 0 THEN lexEnd(i)
                                     ELSE End(exprs.v[Len(exprs.v)]),
                          Expressions |-> exprs.v]))

parseDefer(t, i) ==
    IF ~Expects(t, i, "Defer") THEN expect(t, i, "Defer")
    ELSE Then(parse("Expression", t, next(i)), LAMBDA e :
             Ok(e.i, [kind |-> "DeferStmt", startLoc |-> lexStart(i), Expression |-> e.v]))

parseGo(t, i) ==
    IF ~Expects(t, i, "Go") THEN expect(t, i, "Go")
    ELSE Then(parse("Expression", t, next(i)), LAMBDA e :
             Ok(e.i, [kind |-> "GoStmt", startLoc |-> lexStart(i), Expression |-> e.v]))

\* The loop of parseBlock.  A statement that is empty and is followed by
\* neither a semicolon nor the closing brace leaves the cursor where it was,
\* and the loop appends nil statements without end.
parseBlockStatements(t, i, stmts) ==
    IF Tok(t, i) = "CloseBrace" THEN Ok(i, stmts)
    ELSE Then(parseStatement(t, i), LAMBDA st :
             IF Tok(t, st.i) = "Semicolon"
             THEN parseBlockStatements(t, next(st.i), Append(stmts, st.v))
             ELSE IF st.i = i THEN Diverges(i)
             ELSE parseBlockStatements(t, st.i, Append(stmts, st.v)))

parseBlock(t, i) ==
    IF ~Expects(t, i, "OpenBrace") THEN expect(t, i, "OpenBrace")
    ELSE Then(parseBlockStatements(t, next(i), <<>>), LAMBDA stmts :
             Ok(next(stmts.i), [kind |-> "BlockStmt", startLoc |-> lexStart(i),
                                endLoc |-> lexEnd(stmts.i), Statements |-> stmts.v]))

parseIf(t, i) ==
    IF ~Expects(t, i, "If") THEN expect(t, i, "If")
    ELSE LET ifst == [kind |-> "IfStmt", startLoc |-> lexStart(i), Statement |-> NilNode,
                      Condition |-> NilNode, Block |-> NilNode, Else |-> NilNode]
             Else(j, s) ==
                IF Tok(t, j) # "Else" THEN Ok(j, s)
                ELSE Then(IF Tok(t, next(j)) = "If" THEN parseIf(t, next(j))
                          ELSE parseBlock(t, next(j)), LAMBDA e :
                         Ok(e.i, [s EXCEPT !.Else = e.v]))
         IN Then(parseSimpleStmt(t, next(i), "none"), LAMBDA stmt :
                IF stmt.v.kind = "ExpressionStmt" /\ Tok(t, stmt.i) = "OpenBrace"
                THEN Then(parseBlock(t, stmt.i), LAMBDA b :
                         Else(b.i, [ifst EXCEPT !.Condition = stmt.v.Expression,
                                                !.Block = b.v]))
                ELSE IF ~Expects(t, stmt.i, "Semicolon") THEN expect(t, stmt.i, "Semicolon")
                ELSE Then(parse("Expression", t, next(stmt.i)), LAMBDA cond :
                         Then(parseBlock(t, cond.i), LAMBDA b :
                             Else(b.i, [ifst EXCEPT !.Statement = stmt.v,
                                                    !.Condition = cond.v, !.Block = b.v]))))

parseFor(t, i) ==
    IF ~Expects(t, i, "For") THEN expect(t, i, "For")
    ELSE LET f == [kind |-> "ForStmt", startLoc |-> lexStart(i), Init |-> NilNode,
                   Condition |-> NilNode, Post |-> NilNode, Range |-> NilNode,
                   Block |-> NilNode]
             Block(j, s) == Then(parseBlock(t, j), LAMBDA b : Ok(b.i, [s EXCEPT !.Block = b.v]))
         IN IF Tok(t, next(i)) = "OpenBrace" THEN Block(next(i), f)
            ELSE Then(parseSimpleStmt(t, next(i), "rangeOK"), LAMBDA stmt :
                CASE stmt.v.kind = "rangeClause" ->
                        Block(stmt.i, [f EXCEPT !.Range = stmt.v.Statement])
                  [] stmt.v.kind = "ExpressionStmt" /\ Tok(t, stmt.i) = "OpenBrace" ->
                        Block(stmt.i, [f EXCEPT !.Condition = stmt.v.Expression])
                  [] OTHER ->
                        IF ~Expects(t, stmt.i, "Semicolon") THEN expect(t, stmt.i, "Semicolon")
                        ELSE Then(IF Tok(t, next(stmt.i)) # "Semicolon"
                                  THEN parse("Expression", t, next(stmt.i))
                                  ELSE Ok(next(stmt.i), NilNode), LAMBDA cond :
                                 IF ~Expects(t, cond.i, "Semicolon")
                                 THEN expect(t, cond.i, "Semicolon")
                                 ELSE Then(parseSimpleStmt(t, next(cond.i), "none"),
                                           LAMBDA post :
                                          Block(post.i, [f EXCEPT !.Init = stmt.v,
                                                                  !.Condition = cond.v,
                                                                  !.Post = post.v]))))

\* parseStatement passing over a switch or select keyword as an empty
\* statement.
parseStatementSkips(t, i) ==
    CASE Tok(t, i) \in {"Type", "Const", "Var"} ->
            Then(parse("Declarations", t, i), LAMBDA ds :
                Ok(ds.i, [kind |-> "DeclarationStmt", Declarations |-> ds.v]))
      [] Tok(t, i) = "Go" -> parseGo(t, i)
      [] Tok(t, i) = "Return" -> parseReturn(t, i)
      [] Tok(t, i) = "Break" -> parseBreak(t, i)
      [] Tok(t, i) = "Continue" -> parseContinue(t, i)
      [] Tok(t, i) = "Goto" -> parseGoto(t, i)
      [] Tok(t, i) = "Fallthrough" ->
            Ok(next(i), [kind |-> "FallthroughStmt", startLoc |-> lexStart(i),
                         endLoc |-> lexEnd(i)])
      [] Tok(t, i) = "OpenBrace" -> parseBlock(t, i)
      [] Tok(t, i) = "If" -> parseIf(t, i)
      [] Tok(t, i) \in {"Switch", "Select"} -> Ok(next(i), NilNode)
      [] Tok(t, i) = "For" -> parseFor(t, i)
      [] Tok(t, i) = "Defer" -> parseDefer(t, i)
      [] OTHER -> parseSimpleStmt(t, i, "labelOK")

parseStatement(t, i) ==
    CASE Tok(t, i) \in {"Type", "Const", "Var"} ->
            Then(parse("Declarations", t, i), LAMBDA ds :
                Ok(ds.i, [kind |-> "DeclarationStmt", Declarations |-> ds.v]))
      [] Tok(t, i) = "Go" -> parseGo(t, i)
      [] Tok(t, i) = "Return" -> parseReturn(t, i)
      [] Tok(t, i) = "Break" -> parseBreak(t, i)
      [] Tok(t, i) = "Continue" -> parseContinue(t, i)
      [] Tok(t, i) = "Goto" -> parseGoto(t, i)
      [] Tok(t, i) = "Fallthrough" ->
            Ok(next(i), [kind |-> "FallthroughStmt", startLoc |-> lexStart(i),
                         endLoc |-> lexEnd(i)])
      [] Tok(t, i) = "OpenBrace" -> parseBlock(t, i)
      [] Tok(t, i) = "If" -> parseIf(t, i)
      [] Tok(t, i) = "Switch" -> Raise(i, StringPanic("unimplemented"))
      [] Tok(t, i) = "Select" -> Raise(i, StringPanic("unimplemented"))
      [] Tok(t, i) = "For" -> parseFor(t, i)
      [] Tok(t, i) = "Defer" -> parseDefer(t, i)
      [] OTHER -> parseSimpleStmt(t, i, "labelOK")

\* The grammar functions that the statements call on, and parseStatement
\* itself, by name: parse("Expression", t, i) is parseExpression(p), and
\* parse(opts, t, i) for one of the options is parseSimpleStmt(p, opts).
parse(name, t, i) ==
    CASE name = "Expression" -> parseExpression(t, i)
      [] name = "ExpressionList" -> parseExpressionList(t, i)
      [] name = "Declarations" -> parseDeclarations(t, i)
      [] name = "Statement" -> parseStatement(t, i)
      [] name \in options -> parseSimpleStmt(t, i, name)

\* What a call of Parse leaves: the pair it returns, or the panic it lets through.
Returned(root, err) == [kind |-> "return", root |-> root, err |-> err]
Panicked(value) == [kind |-> "panic", value |-> value]

\* A recover that drops the error it caught.
RecoverDropsError(r) ==
    IF ~Failed(r) THEN Returned(r.v, NilErr)
    ELSE IF r.err.kind \in {"SyntaxError", "MalformedLiteral"} THEN Returned(NilNode, NilErr)
    ELSE Panicked(r.err)

\* The deferred function of Parse, on what parseDeclarations left: root is
\* assigned only if it returned; a *SyntaxError or *MalformedLiteral becomes
\* err, and any other panic value is panicked again.
Recover(r) ==
    IF ~Failed(r) THEN Returned(r.v, NilErr)
    ELSE IF r.err.kind \in {"SyntaxError", "MalformedLiteral"} THEN Returned(NilNode, r.err)
    ELSE Panicked(r.err)

Parse(t) == Recover(parseDeclarations(t, 1))

(***************************************************************************)
(* Parsing runs.  A run holds a token stream in src and applies one entry  *)
(* point of the parser to it, leaving in out what the call left.           *)
(***************************************************************************)
\* The most operands of an expression of binary operators.
MaxOperands == 3
\* The most tokens after the keyword of a declaration.
MaxTail == 4

Token(tok, text) == [tok |-> tok, text |-> text]

\* The operands of an expression, by position.
OperandNames == <<"a", "b", "c", "d", "e", "f", "g", "h", "i", "j", "k", "l", "m", "n">>

BinaryOperators ==
    {"OrOr", "AndAnd", "EqualEqual", "BangEqual", "Less", "LessEqual", "Greater",
     "GreaterEqual", "Plus", "Minus", "Or", "Carrot", "Star", "Divide", "Percent",
     "LessLess", "GreaterGreater", "And", "AndCarrot"}

\* The tokens of the operands a, b, ... joined by the operators ops.
ExprOf(ops) ==
    [p \in 1..(2 * Len(ops) + 1) |->
        IF p % 2 = 1 THEN Token("Identifier", OperandNames[(p + 1) \div 2])
        ELSE Token(ops[p \div 2], ops[p \div 2])]

ExprInputs ==
    {ExprOf(ops) : ops \in UNION {[1..k -> BinaryOperators] : k \in 0..(MaxOperands - 1)}}

\* The tokens that may follow the keyword of a declaration: among them an
\* octal literal with a digit that is not octal, and a string literal with
\* an escape sequence that does not exist.
TailTokens ==
    {Token("Identifier", "a"), Token("Equal", "="), Token("Comma", ","),
     Token("OpenParen", "("), Token("CloseParen", ")"), Token("Plus", "+"),
     Token("IntegerLiteral", <<"1">>), Token("IntegerLiteral", <<"0", "8">>),
     Token("StringLiteral", <<DoubleQuote, Backslash, "q", DoubleQuote>>)}

HeadTokens ==
    {Token("Const", "const"), Token("Var", "var"), Token("Type", "type"),
     Token("Func", "func")}

DeclInputs ==
    {<<h>> \o tail : h \in HeadTokens,
                     tail \in UNION {[1..k -> TailTokens] : k \in 0..MaxTail}}

InitExpr ==
    /\ ResolverIdle
    /\ src \in ExprInputs
    /\ out = NoRet

\* parseBinaryExpr(p, 1, false) on the tokens of src.
ParseBinaryExprCall ==
    /\ out = NoRet
    /\ out' = parseBinaryExpr(src, 1, 1, FALSE)
    /\ UNCHANGED <<rvars, src>>

NextExpr == ParseBinaryExprCall

SpecExpr == InitExpr /\ [][NextExpr]_vars

InitParse ==
    /\ ResolverIdle
    /\ src \in DeclInputs
    /\ out = NoRet

\* Parse(p) on the tokens of src.
ParseCall ==
    /\ out = NoRet
    /\ out' = Parse(src)
    /\ UNCHANGED <<rvars, src>>

NextParse == ParseCall

SpecParse == InitParse /\ [][NextParse]_vars

\* The most tokens of an expression of prefix operators and selectors.
MaxPrefix == 4
\* The most tokens after the opening bracket of an index or slice expression.
MaxSliceTail == 6

\* The token stream of a sequence of token kinds: an identifier is named
\* after its position, an integer literal is 5.
TokensOf(toks) ==
    [p \in 1..Len(toks) |->
        CASE toks[p] = "Identifier" -> Token("Identifier", OperandNames[p])
          [] toks[p] = "IntegerLiteral" -> Token("IntegerLiteral", <<"5">>)
          [] toks[p] = "StringLiteral" ->
                Token("StringLiteral", <<DoubleQuote, "s", DoubleQuote>>)
          [] OTHER -> Token(toks[p], toks[p])]

\* Expressions of prefix operators, identifiers and selectors; and an
\* identifier indexed or sliced.
ExpressionInputs ==
    UNION {[1..k -> unary \cup {"Identifier", "Dot"}] : k \in 1..MaxPrefix}
    \cup {<<"Identifier", "OpenBracket">> \o tail :
            tail \in UNION {[1..k -> {"Identifier", "IntegerLiteral", "Colon", "CloseBracket"}] :
                                k \in 0..MaxSliceTail}}

InitExpression ==
    /\ ResolverIdle
    /\ \E toks \in ExpressionInputs : src = TokensOf(toks)
    /\ out = NoRet

\* parseExpression(p) on the tokens of src.
ParseExpressionCall ==
    /\ out = NoRet
    /\ out' = parseExpression(src, 1)
    /\ UNCHANGED <<rvars, src>>

SpecExpression == InitExpression /\ [][ParseExpressionCall]_vars

MaxTypeTail == 5

\* A function type with the tokens of a parameter list, and a struct type
\* with the tokens of field declarations.
TypeInputs ==
    {<<"Func", "OpenParen">> \o tail :
        tail \in UNION {[1..k -> {"Identifier", "Comma", "CloseParen", "Dot",
                                  "DotDotDot"}] : k \in 0..MaxTypeTail}}
    \cup {<<"Struct", "OpenBrace">> \o tail :
            tail \in UNION {[1..k -> {"Identifier", "Comma", "CloseBrace", "Dot", "Semicolon",
                                      "StringLiteral"}] : k \in 0..MaxTypeTail}}

InitType ==
    /\ ResolverIdle
    /\ \E toks \in TypeInputs : src = TokensOf(toks)
    /\ out = NoRet

\* parseType(p) on the tokens of src.
ParseTypeCall ==
    /\ out = NoRet
    /\ out' = parseType(src, 1)
    /\ UNCHANGED <<rvars, src>>

SpecType == InitType /\ [][ParseTypeCall]_vars

MaxParamTail == 4

\* Function types whose parameter list has a variadic declaration, in the
\* form with identifiers (second and first declaration) and in the form of
\* types alone (after a type name, after a qualified type name, and first),
\* and then the tokens that may follow it.
ParameterInputs ==
    {<<"Func", "OpenParen">> \o head \o tail :
        head \in {<<"Identifier", "Identifier", "Comma", "Identifier", "DotDotDot", "Identifier">>,
                  <<"Identifier", "DotDotDot", "Identifier">>,
                  <<"Identifier", "Comma", "DotDotDot", "Identifier">>,
                  <<"Identifier", "Dot", "Identifier", "Comma", "DotDotDot", "Identifier">>,
                  <<"DotDotDot", "Identifier">>},
        tail \in UNION {[1..k -> {"Identifier", "Comma", "CloseParen", "DotDotDot"}] :
                            k \in 0..MaxParamTail}}

InitParameters ==
    /\ ResolverIdle
    /\ \E toks \in ParameterInputs : src = TokensOf(toks)
    /\ out = NoRet

SpecParameters == InitParameters /\ [][ParseTypeCall]_vars

MaxSpanTail == 4

\* Declarations whose nodes have spans of every shape: a constant with and
\* without a type and values, a constant that is a slice literal with
\* elements, keys and nested literal values, a named type that is a type
\* name, a pointer or a function type, and a struct type.
SpanInputs ==
    UNION {
        {<<"Const", "Identifier">> \o tail :
            tail \in [1..k -> {"Identifier", "Equal", "Comma", "IntegerLiteral"}]}
        \cup {<<"Const", "Identifier", "Equal", "OpenBracket", "CloseBracket", "Identifier",
                "OpenBrace">> \o tail :
            tail \in [1..k -> {"Identifier", "OpenBrace", "CloseBrace", "Colon", "Comma"}]}
        \cup {<<"Type", "Identifier">> \o tail :
            tail \in [1..k -> {"Identifier", "Dot", "Star", "Func", "OpenParen",
                               "CloseParen"}]}
        \cup {<<"Type", "Identifier", "Struct", "OpenBrace">> \o tail :
            tail \in [1..k -> {"Identifier", "Dot", "Star", "Semicolon", "CloseBrace"}]}
        : k \in 0..MaxSpanTail}

InitSpan ==
    /\ ResolverIdle
    /\ \E toks \in SpanInputs : src = TokensOf(toks)
    /\ out = NoRet

SpecSpan == InitSpan /\ [][ParseCall]_vars

MaxStatement == 4

\* Statements of labels, blocks, if statements and expression statements,
\* with the switch, select and func keywords anywhere among their tokens.
StatementInputs ==
    UNION {[1..k -> {"Identifier", "Switch", "Select", "Func", "OpenBrace", "CloseBrace",
                     "Semicolon", "Colon", "If"}] : k \in 1..MaxStatement}

InitStatement ==
    /\ ResolverIdle
    /\ \E toks \in StatementInputs : src = TokensOf(toks)
    /\ out = NoRet

\* parseStatement(p) on the tokens of src.
ParseStatementCall ==
    /\ out = NoRet
    /\ out' = parse("Statement", src, 1)
    /\ UNCHANGED <<rvars, src>>

SpecStatement == InitStatement /\ [][ParseStatementCall]_vars

MaxSimpleTail == 3

\* Simple statements: a leading identifier, literal or list of two
\* expressions, and then the tokens that select the kind of statement.
SimpleStmtInputs ==
    {head \o tail :
        head \in {<<"Identifier">>, <<"IntegerLiteral">>, <<"Identifier", "Comma", "Identifier">>,
                  <<"Identifier", "Comma", "IntegerLiteral">>},
        tail \in UNION {[1..k -> {"Identifier", "IntegerLiteral", "LessMinus", "PlusPlus",
                                  "Equal", "PlusEqual", "ColonEqual", "Colon", "Comma",
                                  "Range"}] : k \in 0..MaxSimpleTail}}

InitSimpleStmt ==
    /\ ResolverIdle
    /\ \E toks \in SimpleStmtInputs : src = TokensOf(toks)
    /\ out = NoRet

\* parseSimpleStmt(p, opts) on the tokens of src; the result keeps the
\* options of the call.
ParseSimpleStmtCall(opts) ==
    /\ out = NoRet
    /\ out' = parse(opts, src, 1) @@ [opts |-> opts]
    /\ UNCHANGED <<rvars, src>>

SpecSimpleStmt == InitSimpleStmt /\ [][\E opts \in options : ParseSimpleStmtCall(opts)]_vars

MaxGuardTail == 4

\* Statements around x.( : an expression statement, short variable
\* declarations with one and two identifiers, with x second in the list and
\* under a prefix operator, and an assignment; then type, the closing
\* parenthesis and what may follow them.
GuardInputs ==
    {head \o <<"Identifier", "Dot", "OpenParen">> \o tail :
        head \in {<<>>, <<"Identifier", "ColonEqual">>,
                  <<"Identifier", "Comma", "Identifier", "ColonEqual">>,
                  <<"Identifier", "ColonEqual", "Identifier", "Comma">>,
                  <<"Identifier", "ColonEqual", "Minus">>,
                  <<"Identifier", "Equal">>},
        tail \in UNION {[1..k -> {"Type", "CloseParen", "Dot", "Identifier", "Comma"}] :
                            k \in 0..MaxGuardTail}}

InitGuard ==
    /\ ResolverIdle
    /\ \E toks \in GuardInputs : src = TokensOf(toks)
    /\ out = NoRet

SpecGuard == InitGuard /\ [][\E opts \in options : ParseSimpleStmtCall(opts)]_vars

MaxForTail == 4

\* For statements: the keyword, one of the headers (none, an expression, a
\* range clause with := and with =, an init statement, an init statement
\* and a condition, empty init and condition, and a range clause in the
\* place of the post statement), and then the tokens that may follow.
ForInputs ==
    {<<"For">> \o head \o tail :
        head \in {<<>>, <<"Identifier">>,
                  <<"Identifier", "ColonEqual", "Range", "Identifier">>,
                  <<"Identifier", "Equal", "Range", "Identifier">>,
                  <<"Identifier", "ColonEqual", "Identifier", "Semicolon">>,
                  <<"Identifier", "Semicolon", "Identifier", "Semicolon">>,
                  <<"Semicolon", "Semicolon">>,
                  <<"Semicolon", "Semicolon", "Identifier", "ColonEqual", "Range",
                    "Identifier">>},
        tail \in UNION {[1..k -> {"Identifier", "Semicolon", "OpenBrace", "CloseBrace",
                                  "Range", "ColonEqual"}] : k \in 0..MaxForTail}}

InitFor ==
    /\ ResolverIdle
    /\ \E toks \in ForInputs : src = TokensOf(toks)
    /\ out = NoRet

SpecFor == InitFor /\ [][ParseStatementCall]_vars

(***************************************************************************)
(* The input of the running invocation, read back from the files walked.   *)
(***************************************************************************)
RECURSIVE Flatten(_)
Flatten(ss) == IF ss = <<>> THEN <<>> ELSE Head(ss) \o Flatten(Tail(ss))

\* The declaration that position i (1-based) of declaration idx of file f declares.
Declares(f, idx, i) ==
    LET d == files[f].Declarations[idx]
        node == DeclNode(d.kind, inv, f - 1, idx - 1, d.syms)
    IN CASE d.kind = "ConstSpec" -> constSpecView(node, i - 1)
         [] d.kind = "VarSpec" -> varSpecView(node, i - 1)
         [] OTHER -> node

\* The package-level identifiers in source order, each with its declaration.
Declared ==
    Flatten([f \in 1..Len(files) |->
        Flatten([idx \in 1..Len(files[f].Declarations) |->
            [i \in 1..Len(files[f].Declarations[idx].names) |->
                [n |-> files[f].Declarations[idx].names[i],
                 decl |-> Declares(f, idx, i)]]])])

\* The declarations of the name n, in source order.
Occ(n) == LET Is(e) == e.n = n IN SelectSeq(Declared, Is)

\* The Redeclaration errors for the name n in the list es, in order.
RedeclsOf(es, n) ==
    LET Is(e) == e.kind = "Redeclaration" /\ e.Name = n IN SelectSeq(es, Is)

\* The import names of file f in source order.
Imported(f) == Flatten(files[f].Imports)

\* The positions of the sequence of names ns whose Bind must fail: a
\* non-blank name that occurs earlier in ns.
Losers(ns) ==
    {j \in 1..Len(ns) : ns[j] # "_" /\ \E k \in 1..(j - 1) : ns[k] = ns[j]}

DeclaredNames == [k \in 1..Len(Declared) |-> Declared[k].n]

\* The scopes from s outward: s, its Up, and so on up to the outermost one.
RECURSIVE Chain(_, _)
Chain(h, s) == IF s = Nil THEN <<>> ELSE <<s>> \o Chain(h, h[s].Up)

Min(S) == CHOOSE x \in S : \A y \in S : x <= y

\* The names looked up: the input names, a predeclared name no input
\* declares and a name nothing declares.
QueryNames == Names \cup {"true", "c"}

Scopes == 1..Len(tabs)

(***************************************************************************)
(* Symbol table properties.                                                *)
(***************************************************************************)
\* C1: every Bind of a non-blank name either finds the name unbound in the
\* receiver, stores the declaration and returns nil, or finds it bound,
\* returns Redeclaration{First: the stored declaration, Second: the new one}
\* and leaves the table as it was; the calls of a step chain on the table
\* and the table in the heap is what the last call left.
C1_BindOnce ==
    /\ \A k \in 1..Len(binds) :
        LET c == binds[k]
        IN c.n # "_" =>
            IF c.n \in DOMAIN c.pre
            THEN /\ c.err = Redeclaration(c.n, c.pre[c.n], c.decl)
                 /\ c.post = c.pre
            ELSE /\ c.err = NilErr
                 /\ DOMAIN c.post = DOMAIN c.pre \cup {c.n}
                 /\ c.post[c.n] = c.decl
                 /\ \A m \in DOMAIN c.pre : c.post[m] = c.pre[m]
    /\ \A k \in 1..Len(binds) :
        IF \E j \in (k + 1)..Len(binds) : binds[j].s = binds[k].s
        THEN LET j == Min({i \in (k + 1)..Len(binds) : binds[i].s = binds[k].s})
             IN binds[j].pre = binds[k].post
        ELSE tabs[binds[k].s].Decls = binds[k].post

\* C1 witness: a Bind of a non-blank name that the receiver already binds.
W_C1 ==
    \E k \in 1..Len(binds) :
        /\ binds[k].n # "_"
        /\ binds[k].n \in DOMAIN binds[k].pre
        /\ binds[k].err.kind = "Redeclaration"
        /\ binds[k].pre[binds[k].n] # binds[k].decl

C3_FindNearest ==
    /\ \A n \in QueryNames : Find(tabs, Nil, n) = NilDecl
    /\ \A s \in Scopes : \A n \in QueryNames :
        LET ch == Chain(tabs, s)
            hits == {i \in 1..Len(ch) : n \in DOMAIN tabs[ch[i]].Decls}
            found == Find(tabs, s, n)
        IN IF hits = {}
           THEN found = NilDecl
           ELSE /\ found = tabs[ch[Min(hits)]].Decls[n]
                /\ found # NilDecl

\* C3 witness: a scope binds a name that its parent binds to something else,
\* and a name is bound nowhere on the chain.
W_C3 ==
    \E s \in Scopes : \E n \in Names :
        /\ tabs[s].Up # Nil
        /\ n \in DOMAIN tabs[s].Decls
        /\ n \in DOMAIN tabs[tabs[s].Up].Decls
        /\ tabs[s].Decls[n] # tabs[tabs[s].Up].Decls[n]
        /\ Find(tabs, s, n) = tabs[s].Decls[n]
        /\ Find(tabs, s, "c") = NilDecl

\* C4: no scope has an entry for the blank identifier, Find of it is nil
\* from every scope, and every Bind of it returns nil and leaves the table
\* as it was.
C4_BlankNeverBound ==
    /\ \A s \in Scopes :
        /\ "_" \notin DOMAIN tabs[s].Decls
        /\ Find(tabs, s, "_") = NilDecl
    /\ \A k \in 1..Len(binds) :
        binds[k].n = "_" => binds[k].err = NilErr /\ binds[k].post = binds[k].pre

\* C4 witness: one step bound the blank identifier twice, to two declarations.
W_C4 ==
    \E j, k \in 1..Len(binds) :
        /\ j < k
        /\ binds[j].n = "_"
        /\ binds[k].n = "_"
        /\ binds[j].decl # binds[k].decl
        /\ binds[j].s = binds[k].s

\* C5: the universe scope is what it was when the program started.
C5_UniverseImmutable ==
    /\ tabs[UnivScope] = univScope
    /\ \A k \in 1..Len(binds) : binds[k].s # UnivScope

\* C5 witness: a second invocation of pkgDecls has declared a predeclared name.
W_C5 ==
    /\ inv >= 2
    /\ psyms # Nil
    /\ "int" \in DOMAIN tabs[psyms].Decls
    /\ tabs[psyms].Decls["int"] # univDecls["int"]

\* C6: a Bind of a non-blank name that the receiver does not bind but an
\* enclosing scope does returns nil; afterwards Find from the receiver is the
\* new declaration and the enclosing scopes bind the name as before.
C6_BindLocalOnly ==
    \A k \in 1..Len(binds) :
        LET c == binds[k]
        IN (c.n # "_" /\ c.n \notin DOMAIN c.pre /\ c.outer # NilDecl) =>
            /\ c.err = NilErr
            /\ c.post[c.n] = c.decl
            /\ Find(tabs, c.s, c.n) = c.decl
            /\ Find(tabs, tabs[c.s].Up, c.n) = c.outer
            /\ c.outer # c.decl

\* C6 witness: a package-level declaration named int, which the universe
\* scope predeclares, has been bound.
W_C6 ==
    \E k \in 1..Len(binds) :
        /\ binds[k].n = "int"
        /\ binds[k].s = psyms
        /\ binds[k].outer = univDecls["int"]
        /\ binds[k].err = NilErr
        /\ Find(tabs, psyms, "int") = binds[k].decl
        /\ Find(tabs, UnivScope, "int") = univDecls["int"]

\* The spec that a view v is a view of.
SpecOf(v) == IF v.kind = "constSpecView" THEN v.ConstSpec ELSE v.VarSpec

ViewKind(k) == IF k = "ConstSpec" THEN "constSpecView" ELSE "varSpecView"

\* The positions <<f, idx, i>> of the identifiers of the ConstSpecs and VarSpecs walked.
SpecPositions ==
    {p \in (1..Len(files)) \X (1..MaxBinds) \X (1..MaxBinds) :
        /\ p[2] <= Len(files[p[1]].Declarations)
        /\ files[p[1]].Declarations[p[2]].kind \in {"ConstSpec", "VarSpec"}
        /\ p[3] <= Len(files[p[1]].Declarations[p[2]].names)}

\* The position is the first one in source order that declares its name.
FirstOf(p) ==
    LET n == files[p[1]].Declarations[p[2]].names[p[3]]
    IN \A f \in 1..Len(files) : \A idx \in 1..Len(files[f].Declarations) :
        \A i \in 1..Len(files[f].Declarations[idx].names) :
            (files[f].Declarations[idx].names[i] = n) =>
                \/ f > p[1]
                \/ f = p[1] /\ idx > p[2]
                \/ f = p[1] /\ idx = p[2] /\ i >= p[3]

\* v is the view of position p: its Index is the 0-based position and its
\* spec is the declaring spec.
IsViewOf(v, p) ==
    LET d == files[p[1]].Declarations[p[2]]
    IN /\ v.kind = ViewKind(d.kind)
       /\ v.Index = p[3] - 1
       /\ SpecOf(v).kind = d.kind
       /\ SpecOf(v).inv = inv
       /\ SpecOf(v).file = p[1] - 1
       /\ SpecOf(v).idx = p[2] - 1

\* C7: pkgDecls hands every identifier of a ConstSpec or VarSpec to Bind with
\* a view of its own: Index is the identifier's 0-based position and the spec
\* is the declaring spec. The step that walks a spec makes one such Bind per
\* identifier, a ConstSpec keeps one view per identifier, the package scope
\* binds the name of every non-blank identifier that is the first to declare
\* it to that view, and no two names are bound to one view.
C7_OwnView ==
    /\ \A p \in SpecPositions :
        LET d == files[p[1]].Declarations[p[2]]
            n == d.names[p[3]]
        IN /\ (n # "_" /\ FirstOf(p)) =>
                /\ n \in DOMAIN tabs[psyms].Decls
                /\ IsViewOf(tabs[psyms].Decls[n], p)
           /\ d.kind = "ConstSpec" =>
                /\ Len(d.views) = Len(d.names)
                /\ IsViewOf(d.views[p[3]], p)
           /\ (p[1] = Len(files) /\ p[2] = Len(files[p[1]].Declarations)
                    /\ pc = "decls" /\ binds # <<>>) =>
                /\ Len(binds) = Len(d.names)
                /\ binds[p[3]].n = n
                /\ binds[p[3]].s = psyms
                /\ IsViewOf(binds[p[3]].decl, p)
    /\ psyms # Nil =>
        \A n, m \in DOMAIN tabs[psyms].Decls :
            (n # m /\ tabs[psyms].Decls[n].kind \in {"constSpecView", "varSpecView"})
                => tabs[psyms].Decls[n] # tabs[psyms].Decls[m]

\* C7 witness: a ConstSpec with two identifiers, bound to the views 0 and 1
\* of the spec, with no error.
W_C7 ==
    /\ pc = "decls"
    /\ errs = <<>>
    /\ Len(binds) = 2
    /\ binds[1].decl.kind = "constSpecView"
    /\ binds[1].n # binds[2].n
    /\ binds[1].n \in DOMAIN tabs[psyms].Decls
    /\ binds[2].n \in DOMAIN tabs[psyms].Decls
    /\ tabs[psyms].Decls[binds[1].n].Index = 0
    /\ tabs[psyms].Decls[binds[2].n].Index = 1
    /\ tabs[psyms].Decls[binds[1].n].ConstSpec = tabs[psyms].Decls[binds[2].n].ConstSpec

\* The Redeclaration errors of a list of errors, those inside the aggregated
\* errors that it holds included.
RECURSIVE Failures(_)
Failures(es) ==
    IF es = <<>> THEN 0
    ELSE (IF Head(es).kind = "errors" THEN Failures(Head(es).list)
          ELSE IF Head(es).kind = "Redeclaration" THEN 1 ELSE 0)
         + Failures(Tail(es))

RECURSIVE Sum(_, _)
Sum(f, n) == IF n = 0 THEN 0 ELSE f[n] + Sum(f, n - 1)

\* The Binds of the running invocation that must fail: of a redeclared import
\* name in one file, and of a redeclared package-level name.
ImportFailures ==
    Sum([f \in 1..Len(files) |-> Cardinality(Losers(Imported(f)))], Len(files))

FailedBinds == ImportFailures + Cardinality(Losers(DeclaredNames))

Raised == parseDeclarations(src, 1)

\* The token an error value points at, from the end location it carries.
ErrorToken(e) == e.End \div 2

\* C9: Parse returns exactly one of a tree and an error.  If the grammar
\* raises a SyntaxError or a MalformedLiteral, Parse returns a nil root and
\* that error, which is about the token the cursor stood on and does not
\* depend on any token after it; if the grammar raises nothing, Parse
\* returns the non-nil tree and a nil error.  Any other panic value passes
\* through Parse, which then returns nothing.
C9_TreeOrError ==
    out # NoRet =>
        /\ out.kind = "return" => ((out.root = NilNode) # (out.err = NilErr))
        /\ (Failed(Raised) /\ Raised.err.kind \in {"SyntaxError", "MalformedLiteral"}) =>
            /\ out.kind = "return"
            /\ out.root = NilNode
            /\ out.err = Raised.err
            /\ ErrorToken(out.err) = Raised.i
            /\ ErrorToken(out.err) \in 1..(Len(src) + 1)
            /\ out.err.Text = Text(src, ErrorToken(out.err))
            /\ out.err.kind = "SyntaxError" => out.err.Got = Tok(src, ErrorToken(out.err))
            /\ \A k \in ErrorToken(out.err)..Len(src) : Parse(SubSeq(src, 1, k)) = out
        /\ ~Failed(Raised) =>
            /\ out.kind = "return"
            /\ out.root # NilNode
            /\ out.root = Raised.v
            /\ out.err = NilErr
        /\ out.kind = "panic" =>
            /\ Failed(Raised)
            /\ Raised.err.kind \notin {"SyntaxError", "MalformedLiteral"}
            /\ out.value = Raised.err

\* C9 witness: Parse returned a nil root with the MalformedLiteral raised at
\* a literal that other tokens follow.
W_C9 ==
    /\ out # NoRet
    /\ out.kind = "return"
    /\ out.root = NilNode
    /\ out.err.kind = "MalformedLiteral"
    /\ ErrorToken(out.err) < Len(src)

\* The precedence levels as the documentation lists them.
DocumentedLevel(op) ==
    CASE op = "OrOr" -> 1
      [] op = "AndAnd" -> 2
      [] op \in {"EqualEqual", "BangEqual", "Less", "LessEqual", "Greater", "GreaterEqual"} -> 3
      [] op \in {"Plus", "Minus", "Or", "Carrot"} -> 4
      [] op \in {"Star", "Divide", "Percent", "LessLess", "GreaterGreater", "And",
                 "AndCarrot"} -> 5

RECURSIVE Subtrees(_)
\* The nodes of an expression of binary operators, the expression included.
Subtrees(e) ==
    IF e.kind = "BinaryOp" THEN {e} \cup Subtrees(e.Left) \cup Subtrees(e.Right) ELSE {e}

RECURSIVE Inorder(_)
\* The tokens of an expression of binary operators, left to right.
Inorder(e) ==
    IF e.kind = "BinaryOp"
    THEN Inorder(e.Left) \o <<Token(e.Op, e.Op)>> \o Inorder(e.Right)
    ELSE <<Token("Identifier", e.Name)>>

\* The operation of the operator that is the p-th token of src.
OperationAt(p) ==
    CHOOSE n \in Subtrees(out.v) : n.kind = "BinaryOp" /\ n.opLoc = lexStart(p)

\* The operand that is the k-th identifier of src.
Operand(k) == [kind |-> "Identifier", Name |-> OperandNames[k], span |-> spanOf(2 * k - 1)]

\* The operation op(left, right) whose operator is the p-th token of src.
Operation(op, p, left, right) == BinaryOp(op, lexStart(p), left, right)

\* C10: on operands joined by binary operators, parseBinaryExpr consumes
\* every token and returns a tree over exactly these tokens in their order,
\* in which, of two neighbouring operators of different documented levels
\* (|| 1, && 2, comparisons 3, + - | ^ 4, * / % << >> & &^ 5), the operation
\* of the higher level lies within the neighbouring operand of the operation
\* of the lower level; a + b * c is +(a, *(b, c)), a * b + c is
\* +(*(a, b), c), a || b && c is ||(a, &&(b, c)) and a && b == c is
\* &&(a, ==(b, c)).
C10_PrecedenceNesting ==
    out # NoRet =>
        /\ ~Failed(out)
        /\ out.i = Len(src) + 1
        /\ Inorder(out.v) = src
        /\ \A p \in 1..Len(src) : \A q \in 1..Len(src) :
            (p % 2 = 0 /\ q = p + 2) =>
                /\ DocumentedLevel(Tok(src, p)) > DocumentedLevel(Tok(src, q)) =>
                        OperationAt(p) \in Subtrees(OperationAt(q).Left)
                /\ DocumentedLevel(Tok(src, p)) < DocumentedLevel(Tok(src, q)) =>
                        OperationAt(q) \in Subtrees(OperationAt(p).Right)
        /\ src = ExprOf(<<"Plus", "Star">>) =>
               out.v = Operation("Plus", 2, Operand(1), Operation("Star", 4, Operand(2), Operand(3)))
        /\ src = ExprOf(<<"Star", "Plus">>) =>
               out.v = Operation("Plus", 4, Operation("Star", 2, Operand(1), Operand(2)), Operand(3))
        /\ src = ExprOf(<<"OrOr", "AndAnd">>) =>
               out.v = Operation("OrOr", 2, Operand(1),
                                 Operation("AndAnd", 4, Operand(2), Operand(3)))
        /\ src = ExprOf(<<"AndAnd", "EqualEqual">>) =>
               out.v = Operation("AndAnd", 2, Operand(1),
                                 Operation("EqualEqual", 4, Operand(2), Operand(3)))

\* C10 witness: a + b * c was parsed and the multiplication is the right
\* operand of the addition.
W_C10 ==
    /\ out # NoRet
    /\ src = ExprOf(<<"Plus", "Star">>)
    /\ out.v.kind = "BinaryOp"
    /\ out.v.Op = "Plus"
    /\ out.v.Right.kind = "BinaryOp"
    /\ out.v.Right.Op = "Star"

\* The operators of src, all of them tokens at even positions.
OperatorPositions == {p \in 1..Len(src) : p % 2 = 0}

RECURSIVE LeftFold(_)
\* (((x1 op1 x2) op2 x3) ...) over the first n operators of src.
LeftFold(n) ==
    IF n = 0 THEN Operand(1)
    ELSE Operation(Tok(src, 2 * n), 2 * n, LeftFold(n - 1), Operand(n + 1))

\* C11: when all the operators of the parsed sequence are on one documented
\* precedence level, parseBinaryExpr returns the left fold: the Left child of
\* every BinaryOp is the BinaryOp of all the operators before it (or the
\* first operand) and its Right child is the single next operand.
C11_LeftFold ==
    (/\ out # NoRet
     /\ \A p \in OperatorPositions : \A q \in OperatorPositions :
            DocumentedLevel(Tok(src, p)) = DocumentedLevel(Tok(src, q))) =>
        /\ ~Failed(out)
        /\ out.v = LeftFold(Cardinality(OperatorPositions))
        /\ \A p \in OperatorPositions :
            /\ OperationAt(p).Right = Operand(p \div 2 + 1)
            /\ OperationAt(p).Left = LeftFold(p \div 2 - 1)

\* C11 witness: a + b + c was parsed to +(+(a, b), c).
W_C11 ==
    /\ out # NoRet
    /\ src = ExprOf(<<"Plus", "Plus">>)
    /\ out.v.Left.kind = "BinaryOp"
    /\ out.v.Left.Op = "Plus"
    /\ out.v.Right = Operand(3)

\* The members of a sequence.
Members(seq) == {seq[k] : k \in 1..Len(seq)}

\* A node if there is one, nothing for nil.
Present(n) == IF n = NilNode THEN {} ELSE {n}

\* The syntactic children of a node: the nodes its fields hold.
Children(n) ==
    CASE n.kind = "Declarations" -> Members(n.list)
      [] n.kind \in {"ConstSpec", "VarSpec"} ->
            Members(n.Names) \cup Present(n.Type) \cup Members(n.Values)
      [] n.kind = "TypeSpec" -> {n.Name, n.Type}
      [] n.kind = "StructType" -> Members(n.Fields)
      [] n.kind = "FieldDecl" -> Members(n.Identifiers) \cup {n.Type} \cup Present(n.Tag)
      [] n.kind = "InterfaceType" -> Members(n.Methods)
      [] n.kind = "Method" -> {n.Name, n.Signature}
      [] n.kind = "FunctionType" -> {n.Signature}
      [] n.kind = "Signature" -> {n.Parameters, n.Result}
      [] n.kind = "ParameterList" -> Members(n.Parameters)
      [] n.kind = "ParameterDecl" -> Members(n.Identifiers) \cup {n.Type}
      [] n.kind \in {"ChannelType", "SliceType", "PointerType"} -> {n.Type}
      [] n.kind = "MapType" -> {n.Key, n.Type}
      [] n.kind = "ArrayType" -> Present(n.Size) \cup {n.Type}
      [] n.kind = "CompositeLiteral" -> Present(n.Type) \cup Members(n.Elements)
      [] n.kind = "Element" -> Present(n.Key) \cup {n.Value}
      [] n.kind = "Index" -> {n.Expression, n.Index}
      [] n.kind = "Slice" ->
            {n.Expression} \cup Present(n.Low) \cup Present(n.High) \cup Present(n.Max)
      [] n.kind = "TypeAssertion" -> {n.Expression} \cup Present(n.Type)
      [] n.kind = "Selector" -> {n.Expression, n.Selection}
      [] n.kind = "Call" -> {n.Function} \cup Members(n.Arguments)
      [] n.kind = "BinaryOp" -> {n.Left, n.Right}
      [] n.kind = "UnaryOp" -> {n.Operand}
      [] OTHER -> {}

RECURSIVE Nodes(_)
\* A node and everything below it.
Nodes(n) == {n} \cup UNION {Nodes(c) : c \in Children(n)}

\* The identifier that is the p-th token of src.
IdentAt(p) == [kind |-> "Identifier", Name |-> OperandNames[p], span |-> spanOf(p)]

\* The token that holds a location.
TokenAt(loc) == (loc + 1) \div 2

\* The p-th token of src stands where an operand is expected: it is the
\* first token or follows an operator.
OperandPosition(p) == p = 1 \/ Tok(src, p - 1) \in unary \cup BinaryOperators

\* C12: in every expression parsed, each prefix operator + - ! ^ * & <- in
\* operand position is a UnaryOp whose operand starts at the next token, is
\* no binary operation (the prefix operator binds tighter), takes in every
\* postfix operator that follows (it binds looser), and is itself the
\* UnaryOp of the next token when that is a prefix operator (they nest right
\* to left); -a + b is +(-(a), b), a + -b is +(a, -(b)), -a.b is -(a.b)
\* and <-!-a is <-(!(-(a))).
C12_PrefixOperators ==
    (out # NoRet /\ ~Failed(out)) =>
        /\ \A p \in 1..(out.i - 1) :
            (Tok(src, p) \in unary /\ OperandPosition(p)) =>
                \E n \in Nodes(out.v) :
                    /\ n.kind = "UnaryOp"
                    /\ n.Op = Tok(src, p)
                    /\ n.opLoc = lexStart(p)
                    /\ Start(n.Operand) = lexStart(p + 1)
                    /\ n.Operand.kind # "BinaryOp"
                    /\ Tok(src, TokenAt(End(n.Operand)) + 1)
                            \notin {"Dot", "OpenBracket", "OpenParen"}
                    /\ Tok(src, p + 1) \in unary =>
                            (n.Operand.kind = "UnaryOp" /\ n.Operand.opLoc = lexStart(p + 1))
        /\ src = TokensOf(<<"Minus", "Identifier", "Plus", "Identifier">>) =>
               out.v = BinaryOp("Plus", lexStart(3),
                                UnaryOp("Minus", lexStart(1), IdentAt(2)), IdentAt(4))
        /\ src = TokensOf(<<"Identifier", "Plus", "Minus", "Identifier">>) =>
               out.v = BinaryOp("Plus", lexStart(2), IdentAt(1),
                                UnaryOp("Minus", lexStart(3), IdentAt(4)))
        /\ src = TokensOf(<<"Minus", "Identifier", "Dot", "Identifier">>) =>
               out.v = UnaryOp("Minus", lexStart(1),
                               [kind |-> "Selector", Expression |-> IdentAt(2),
                                Selection |-> IdentAt(4), dotLoc |-> lexStart(3)])
        /\ src = TokensOf(<<"LessMinus", "Bang", "Minus", "Identifier">>) =>
               out.v = UnaryOp("LessMinus", lexStart(1),
                               UnaryOp("Bang", lexStart(2),
                                       UnaryOp("Minus", lexStart(3), IdentAt(4))))

\* C12 witness: -a.b was parsed and the operand of the minus is the selector.
W_C12 ==
    /\ out # NoRet
    /\ src = TokensOf(<<"Minus", "Identifier", "Dot", "Identifier">>)
    /\ out.v.kind = "UnaryOp"
    /\ out.v.Operand.kind = "Selector"

\* The operand that is the p-th token of src: an identifier or the integer
\* literal 5.
OperandAt(p) ==
    IF Tok(src, p) = "Identifier" THEN IdentAt(p)
    ELSE [kind |-> "IntegerLiteral", Value |-> 5, span |-> spanOf(p)]

\* The Slice node of an expression, bracket tokens at open and close.
SliceNode(left, low, high, max, open, close) ==
    [kind |-> "Slice", Expression |-> left, Low |-> low, High |-> high, Max |-> max,
     openLoc |-> lexStart(open), closeLoc |-> lexStart(close)]

\* The bound of a slice that stands at token p, nil if a colon or the
\* closing bracket stands there.
BoundAt(p) == IF Tok(src, p) \in {"Colon", "CloseBracket"} THEN NilNode ELSE OperandAt(p)

\* C13: in every Slice node parsed, Low, High and Max are the bounds present
\* in the source and nil for the omitted ones, and Max is only present with
\* High; a[b:c:d] has (b, c, d), a[:b:c] has (nil, b, c), a[:] has
\* (nil, nil, nil), and a[:b:] and a[::b] raise a SyntaxError.
C13_SliceBounds ==
    /\ (out # NoRet /\ ~Failed(out)) =>
        \A n \in Nodes(out.v) : n.kind = "Slice" =>
            LET open == TokenAt(n.openLoc)
                colon == IF Tok(src, open + 1) = "Colon" THEN open + 1 ELSE open + 2
                second == colon + 2
            IN /\ n.Max # NilNode => n.High # NilNode
               /\ n.Low = BoundAt(open + 1)
               /\ Tok(src, colon) = "Colon"
               /\ n.High = BoundAt(colon + 1)
               /\ n.Max = IF n.High # NilNode /\ Tok(src, second) = "Colon"
                          THEN OperandAt(second + 1) ELSE NilNode
               /\ n.Max # NilNode => Tok(src, second + 1) \in {"Identifier", "IntegerLiteral"}
               /\ Tok(src, TokenAt(n.closeLoc)) = "CloseBracket"
    /\ out # NoRet =>
        /\ src = TokensOf(<<"Identifier", "OpenBracket", "Identifier", "Colon", "Identifier",
                            "Colon", "Identifier", "CloseBracket">>) =>
               out.v = SliceNode(IdentAt(1), IdentAt(3), IdentAt(5), IdentAt(7), 2, 8)
        /\ src = TokensOf(<<"Identifier", "OpenBracket", "Colon", "Identifier", "Colon",
                            "Identifier", "CloseBracket">>) =>
               out.v = SliceNode(IdentAt(1), NilNode, IdentAt(4), IdentAt(6), 2, 7)
        /\ src = TokensOf(<<"Identifier", "OpenBracket", "Colon", "CloseBracket">>) =>
               out.v = SliceNode(IdentAt(1), NilNode, NilNode, NilNode, 2, 4)
        /\ src \in {TokensOf(<<"Identifier", "OpenBracket", "Colon", "Identifier", "Colon",
                               "CloseBracket">>),
                     TokensOf(<<"Identifier", "OpenBracket", "Colon", "Colon", "Identifier",
                               "CloseBracket">>)} =>
               (out.v = NilNode /\ out.err.kind = "SyntaxError")

\* C13 witness: a[:b:c] was parsed into a Slice without Low and with High
\* and Max.
W_C13 ==
    /\ out # NoRet
    /\ ~Failed(out)
    /\ out.v.kind = "Slice"
    /\ out.v.Low = NilNode
    /\ out.v.High # NilNode
    /\ out.v.Max # NilNode

\* C14: after the opening bracket and one expression, a closing bracket
\* gives an Index and a colon continues as a slice; any other token, the end
\* of input included, raises one SyntaxError that expects the closing
\* bracket, and no tree is returned.  a[5 raises that error.
C14_IndexOrSlice ==
    (/\ out # NoRet
     /\ Len(src) >= 3
     /\ Tok(src, 2) = "OpenBracket"
     /\ Tok(src, 3) \in {"Identifier", "IntegerLiteral"}) =>
        CASE Tok(src, 4) = "CloseBracket" ->
                /\ ~Failed(out)
                /\ out.i = 5
                /\ out.v = [kind |-> "Index", Expression |-> IdentAt(1), Index |-> OperandAt(3),
                            openLoc |-> lexStart(2), closeLoc |-> lexEnd(4)]
          [] Tok(src, 4) = "Colon" ->
                \/ ~Failed(out) /\ out.v.kind = "Slice" /\ out.v.Low = OperandAt(3)
                \/ Failed(out) /\ out.v = NilNode /\ ErrorToken(out.err) > 4
          [] OTHER ->
                /\ Failed(out)
                /\ out.v = NilNode
                /\ out.err.kind = "SyntaxError"
                /\ \E k \in 1..Len(out.err.Wanted) : out.err.Wanted[k] = "CloseBracket"
                /\ ErrorToken(out.err) = 4
                /\ out.err.Got = Tok(src, 4)

\* C14 witness: a[5 was parsed and raised the SyntaxError at the end of
\* input.
W_C14 ==
    /\ out # NoRet
    /\ src = TokensOf(<<"Identifier", "OpenBracket", "IntegerLiteral">>)
    /\ Failed(out)
    /\ out.err.kind = "SyntaxError"
    /\ out.err.Got = "EOF"

\* A type name without a package that is the p-th token of src.
TypeNameAt(p) == TypeName("", OperandNames[p], spanOf(p))

\* C15: every ParameterList parsed is homogeneous: its declarations all
\* have no identifier or all have at least one; (a, b int) is one
\* declaration of the identifiers a and b with the type int, and (a int, b)
\* raises a SyntaxError.
C15_HomogeneousParameters ==
    /\ (out # NoRet /\ ~Failed(out)) =>
        \A n \in Nodes(out.v) : n.kind = "ParameterList" =>
            \/ \A d \in Members(n.Parameters) : Len(d.Identifiers) = 0
            \/ \A d \in Members(n.Parameters) : Len(d.Identifiers) >= 1
    /\ out # NoRet =>
        /\ src = TokensOf(<<"Func", "OpenParen", "Identifier", "Comma", "Identifier",
                            "Identifier", "CloseParen">>) =>
               /\ ~Failed(out)
               /\ out.v.kind = "FunctionType"
               /\ out.v.Signature.Parameters =
                      ParameterList(<<ParameterDecl(TypeNameAt(6), <<IdentAt(3), IdentAt(5)>>,
                                                    FALSE)>>,
                                    lexStart(2), lexStart(7))
        /\ src = TokensOf(<<"Func", "OpenParen", "Identifier", "Identifier", "Comma",
                            "Identifier", "CloseParen">>) =>
               (out.v = NilNode /\ out.err.kind = "SyntaxError")

\* C15 witness: a parameter list of one declaration with two identifiers
\* was parsed.
W_C15 ==
    /\ out # NoRet
    /\ ~Failed(out)
    /\ out.v.kind = "FunctionType"
    /\ Len(out.v.Signature.Parameters.Parameters) = 1
    /\ Len(out.v.Signature.Parameters.Parameters[1].Identifiers) = 2

\* The FieldDecl nodes of a struct type parsed from src, in order.
FieldsOf(r) == r.v.Fields

\* C16: parseFieldDecl decides by the token after the first identifier of a
\* field: a dot makes the identifier the qualifier of an embedded type and
\* the declaration has no identifiers; a string literal, a semicolon or a
\* closing brace makes it the name of an embedded type; any other token
\* makes it the first of a comma-separated list of names followed by a type.
\* struct { a b } has Identifiers [a] and Type b, struct { a.b } has no
\* Identifiers and Type a.b.
C16_FieldDecl ==
    (/\ out # NoRet
     /\ Tok(src, 1) = "Struct"
     /\ Tok(src, 3) = "Identifier") =>
        /\ ~Failed(out) =>
            LET d == FieldsOf(out)[1]
            IN CASE Tok(src, 4) = "Dot" ->
                       /\ d.Identifiers = <<>>
                       /\ d.Type = TypeName(OperandNames[3], OperandNames[5],
                                            [start |-> lexStart(3), end |-> lexEnd(5)])
                 [] Tok(src, 4) \in {"StringLiteral", "Semicolon", "CloseBrace"} ->
                       /\ d.Identifiers = <<>>
                       /\ d.Type = TypeNameAt(3)
                       /\ (d.Tag # NilNode) = (Tok(src, 4) = "StringLiteral")
                 [] OTHER ->
                       /\ Len(d.Identifiers) >= 1
                       /\ \A k \in 1..Len(d.Identifiers) : d.Identifiers[k] = IdentAt(2 * k + 1)
                       /\ \A k \in 1..(Len(d.Identifiers) - 1) : Tok(src, 2 * k + 2) = "Comma"
                       /\ Start(d.Type) = lexStart(2 * Len(d.Identifiers) + 2)
        /\ Tok(src, 4) \notin {"Dot", "StringLiteral", "Semicolon", "CloseBrace", "Comma",
                               "Identifier", "Star"} => Failed(out)
        /\ src = TokensOf(<<"Struct", "OpenBrace", "Identifier", "Identifier",
                            "CloseBrace">>) =>
               /\ ~Failed(out)
               /\ FieldsOf(out) = <<FieldDecl(<<IdentAt(3)>>, TypeNameAt(4), NilNode)>>
        /\ src = TokensOf(<<"Struct", "OpenBrace", "Identifier", "Dot", "Identifier",
                            "CloseBrace">>) =>
               /\ ~Failed(out)
               /\ FieldsOf(out) =
                      <<FieldDecl(<<>>, TypeName(OperandNames[3], OperandNames[5],
                                                 [start |-> lexStart(3), end |-> lexEnd(5)]),
                                  NilNode)>>

\* C16 witness: a struct type whose first field is a list of two names
\* followed by a type was parsed.
W_C16 ==
    /\ out # NoRet
    /\ ~Failed(out)
    /\ out.v.kind = "StructType"
    /\ Len(out.v.Fields) >= 1
    /\ Len(out.v.Fields[1].Identifiers) = 2

RECURSIVE UpFrom(_, _)
\* The scope k steps of Up away from s, nil once the chain has ended.
UpFrom(s, k) == IF k = 0 \/ s = Nil THEN s ELSE UpFrom(tabs[s].Up, k - 1)

\* The scopes of the first k steps from s outward.
Enclosing(s, k) == {UpFrom(s, j) : j \in 0..k} \ {Nil}

\* C20: every scope chain that pkgDecls and fileDecls build is acyclic and
\* ends at the universe scope, whose Up is nil; so Find terminates on every
\* scope, with the declaration of the innermost scope of the chain that binds
\* the name or with nil if none does, and Find on the nil scope returns nil.
C20_ScopeChains ==
    /\ tabs[UnivScope].Up = Nil
    /\ \A n \in QueryNames : Find(tabs, Nil, n) = NilDecl
    /\ \A s \in Scopes :
        \E k \in 0..(Len(tabs) - 1) :
            /\ UpFrom(s, k) = UnivScope
            /\ UpFrom(s, k + 1) = Nil
            /\ Cardinality(Enclosing(s, k)) = k + 1
            /\ \A n \in QueryNames :
                LET binders == {j \in 0..k : n \in DOMAIN tabs[UpFrom(s, j)].Decls}
                IN Find(tabs, s, n) =
                       IF binders = {} THEN NilDecl
                       ELSE tabs[UpFrom(s, Min(binders))].Decls[n]

\* C20 witness: a file scope stands under a package scope under the universe
\* scope, and Find from it runs off the end of the chain for a name that
\* nothing declares.
W_C20 ==
    \E s \in Scopes :
        /\ UpFrom(s, 2) = UnivScope
        /\ UpFrom(s, 3) = Nil
        /\ Find(tabs, s, "c") = NilDecl
        /\ Find(tabs, s, "true") # NilDecl

\* The nodes of the tree that Parse returned.
Parsed == IF out.kind = "return" /\ out.root # NilNode THEN Nodes(out.root) ELSE {}

\* C17: for every composite node that the parser produces and every
\* syntactic child of it, node.Start() <= child.Start() and child.End() <=
\* node.End(); a qualified TypeName ends no earlier than its second
\* identifier.
C17_SpanContainment ==
    \A n \in Parsed :
        /\ \A c \in Children(n) :
            /\ PanicLoc \notin {Start(n), Start(c), End(n), End(c)}
            /\ Start(n) <= Start(c)
            /\ End(c) <= End(n)
        /\ (n.kind = "TypeName" /\ n.Package # "") =>
               lexEnd(TokenAt(Start(n)) + 2) <= End(n)

\* C17 witness: a composite literal with an explicit type was parsed, and
\* its Start is the opening brace, after the start of its Type.
W_C17 ==
    \E n \in Parsed :
        /\ n.kind = "CompositeLiteral"
        /\ n.Type # NilNode
        /\ Start(n) = n.openLoc
        /\ Start(n.Type) < Start(n)

\* C18: every node that the parser produces has a defined span with
\* Start() <= End().
C18_SpanDefined ==
    \A n \in Parsed :
        /\ Start(n) # PanicLoc
        /\ End(n) # PanicLoc
        /\ Start(n) <= End(n)

\* C18 witness: a function type without a result list was parsed; its End
\* is the zero location of the absent result list, before its Start.
W_C18 ==
    \E n \in Parsed :
        /\ n.kind = "FunctionType"
        /\ n.Signature.Result = ParameterList(<<>>, ZeroLoc, ZeroLoc)
        /\ End(n) = ZeroLoc
        /\ End(n) < Start(n)

\* The tokens before position p only open statements: labels, opening
\* braces and empty statements, so that a statement starts at p.
RECURSIVE StatementAt(_)
StatementAt(p) ==
    \/ p = 1
    \/ p > 1 /\ Tok(src, p - 1) = "OpenBrace" /\ StatementAt(p - 1)
    \/ p > 2 /\ Tok(src, p - 1) = "Colon" /\ Tok(src, p - 2) = "Identifier"
             /\ StatementAt(p - 2)
    \/ p > 2 /\ Tok(src, p - 1) = "Semicolon" /\ Tok(src, p - 2) = "OpenBrace"
             /\ StatementAt(p - 2)

\* C19: the constructs that are not implemented never produce a tree.
\* Where a statement starts at a switch or select keyword, parseStatement
\* panics with the string "unimplemented", which the deferred function of
\* Parse does not turn into a returned error but panics with again; where it
\* starts at the func keyword, which is then in operand position, a
\* SyntaxError is raised; and no statement that parseStatement returns has
\* taken in any of the three keywords.
C19_UnimplementedFailLoudly ==
    out # NoRet =>
        /\ \A p \in 1..Len(src) : StatementAt(p) =>
            /\ Tok(src, p) \in {"Switch", "Select"} =>
                   /\ out = Raise(p, StringPanic("unimplemented"))
                   /\ Recover(out) = Panicked(StringPanic("unimplemented"))
            /\ Tok(src, p) = "Func" =>
                   /\ out = Raise(p, SyntaxError(src, p, <<"operand">>))
                   /\ Recover(out) = Returned(NilNode, SyntaxError(src, p, <<"operand">>))
            /\ (Tok(src, p) = "If" /\ Tok(src, p + 1) = "Func") =>
                   out = Raise(p + 1, SyntaxError(src, p + 1, <<"operand">>))
        /\ ~Failed(out) =>
               \A p \in 1..(out.i - 1) : Tok(src, p) \notin {"Switch", "Select", "Func"}
        /\ Failed(out) => out.v = NilNode

\* C19 witness: a block whose first statement is labelled and is a select
\* statement was parsed, and parseStatement panicked with "unimplemented".
W_C19 ==
    /\ out # NoRet
    /\ Len(src) >= 4
    /\ Tok(src, 1) = "OpenBrace"
    /\ Tok(src, 2) = "Identifier"
    /\ Tok(src, 3) = "Colon"
    /\ Tok(src, 4) = "Select"
    /\ out.err = StringPanic("unimplemented")

\* The import specs of file f that are named n, as <<idx, j>>: import
\* declaration idx of the file, spec j of the declaration (both 1-based).
ImportsNamed(f, n) ==
    {p \in (1..Len(files[f].Imports)) \X (1..MaxBinds) :
        /\ p[2] <= Len(files[f].Imports[p[1]])
        /\ files[f].Imports[p[1]][p[2]] = n}

\* The first import spec of file f that is named n.
FirstImport(f, n) ==
    CHOOSE p \in ImportsNamed(f, n) :
        \A q \in ImportsNamed(f, n) : p[1] < q[1] \/ (p[1] = q[1] /\ p[2] <= q[2])

\* C21: when pkgDecls has returned, the scopes are nested universe, package,
\* file: the parent of every file scope is the package scope and the parent
\* of the package scope is the universe scope; Find of a name on a file scope
\* is the binding of the file's own import of that name if the file has one,
\* otherwise the package-level declaration of the name, whichever file
\* declares it, otherwise the predeclared declaration, otherwise nil.
C21_NestedScopes ==
    ret.kind = "return" =>
        /\ ret.syms = psyms
        /\ tabs[psyms].Up = UnivScope
        /\ tabs[UnivScope].Up = Nil
        /\ \A f \in 1..Len(files) :
            /\ files[f].syms \in Scopes \ {UnivScope, psyms}
            /\ tabs[files[f].syms].Up = psyms
            /\ \A g \in 1..Len(files) : g # f => files[g].syms # files[f].syms
            /\ \A n \in QueryNames :
                LET found == Find(tabs, files[f].syms, n)
                IN IF n # "_" /\ ImportsNamed(f, n) # {}
                   THEN /\ found.kind = "packageDecl"
                        /\ found.ImportDecl = [inv |-> inv, file |-> f - 1,
                                               idx |-> FirstImport(f, n)[1] - 1]
                        /\ found.spec = FirstImport(f, n)[2] - 1
                   ELSE IF n # "_" /\ Occ(n) # <<>>
                   THEN found = Occ(n)[1].decl
                   ELSE IF n \in DOMAIN univDecls
                   THEN found = univDecls[n]
                   ELSE found = NilDecl

\* C21 witness: pkgDecls has returned for a file that imports a name and
\* declares another at package level; from the file scope the first resolves
\* to the import, the second to the package-level declaration, int to the
\* predeclared type and c to nothing.
W_C21 ==
    /\ ret.kind = "return"
    /\ \E f \in 1..Len(files) : \E n, m \in Names \ {"_", "int"} :
        /\ n # m
        /\ ImportsNamed(f, n) # {}
        /\ Occ(m) # <<>>
        /\ Find(tabs, files[f].syms, n).kind = "packageDecl"
        /\ Find(tabs, files[f].syms, m) = Occ(m)[1].decl
        /\ Find(tabs, files[f].syms, "int") = univDecls["int"]
        /\ Find(tabs, files[f].syms, "c") = NilDecl

\* The scope of file f: f.syms once fileDecls has returned it, the symtab
\* that the running fileDecls holds until then.
FileScope(f) == IF files[f].syms # Nil THEN files[f].syms ELSE syms

\* The scopes of the opaque packages that the imports of the files are bound to.
PackageScopes ==
    UNION {{tabs[FileScope(f)].Decls[n].syms : n \in DOMAIN tabs[FileScope(f)].Decls} :
              f \in 1..Len(files)}

\* Every source file walked so far has a scope of its own whose parent is
\* up; the scope binds exactly the non-blank import names of the file, each
\* to the opaque package of the first import spec of that name, and the
\* scope of each such package is a table of its own, empty and chained to
\* the universe scope.
FileScopesUnder(up) ==
    \A f \in 1..Len(files) :
        LET fs == FileScope(f)
        IN /\ fs \in Scopes \ {UnivScope, psyms}
           /\ \A g \in 1..Len(files) : g # f => FileScope(g) # fs
           /\ tabs[fs].Up = up
           /\ DOMAIN tabs[fs].Decls = {n \in Names \ {"_"} : ImportsNamed(f, n) # {}}
           /\ \A n \in DOMAIN tabs[fs].Decls :
                LET p == tabs[fs].Decls[n]
                IN /\ p.kind = "packageDecl"
                   /\ p.ImportDecl = [inv |-> inv, file |-> f - 1,
                                      idx |-> FirstImport(f, n)[1] - 1]
                   /\ p.spec = FirstImport(f, n)[2] - 1
                   /\ p.syms \in Scopes \ {UnivScope, psyms}
                   /\ \A g \in 1..Len(files) : FileScope(g) # p.syms
                   /\ tabs[p.syms] = [Up |-> UnivScope, Decls |-> <<>>]
                   /\ \A m \in DOMAIN tabs[fs].Decls :
                        m # n => tabs[fs].Decls[m].syms # p.syms

\* C22: fileDecls makes one file scope per source file, whose parent is the
\* package scope that pkgDecls passed in, and binds each import of the file
\* in that file scope to an opaque package whose own scope is a fresh empty
\* table chained to the universe scope.
C22_FileScopes == psyms # Nil => FileScopesUnder(psyms)

\* C22 as stated: the parent of every file scope is the universe scope.
C22_FileScopesUnderUniverse == psyms # Nil => FileScopesUnder(UnivScope)

\* C22 witness: fileDecls has returned the scope of a file with an import;
\* the scope is chained to the package scope, the scope of the imported
\* package to the universe scope.
W_C22 ==
    /\ fret.kind = "return"
    /\ psyms # UnivScope
    /\ tabs[fret.syms].Up = psyms
    /\ \E n \in Names :
        /\ n \in DOMAIN tabs[fret.syms].Decls
        /\ tabs[tabs[fret.syms].Decls[n].syms].Up = UnivScope
        /\ tabs[fret.syms].Decls[n].syms \in PackageScopes

\* The Redeclaration errors of a list of errors, those inside aggregated
\* errors included, as a set.
RECURSIVE Redeclarations(_)
Redeclarations(es) ==
    IF es = <<>> THEN {}
    ELSE (IF Head(es).kind = "errors" THEN Redeclarations(Head(es).list)
          ELSE IF Head(es).kind = "Redeclaration" THEN {Head(es)} ELSE {})
         \cup Redeclarations(Tail(es))

\* Every const-spec view that the resolver holds anywhere: in the view list
\* of a ConstSpec, bound in a scope, handed to Bind in the last step, named
\* by a Redeclaration error, or returned.
ConstViews ==
    LET IsView(d) == d.kind = "constSpecView"
        viewsOf(d) == {d.views[i] : i \in 1..Len(d.views)}
        declsOf(f) == {f.Declarations[idx] : idx \in 1..Len(f.Declarations)}
        kept == UNION {UNION {viewsOf(d) : d \in declsOf(files[f])} :
                          f \in 1..Len(files)}
        bound == UNION {{tabs[s].Decls[n] : n \in DOMAIN tabs[s].Decls} : s \in Scopes}
        passed == {binds[k].decl : k \in 1..Len(binds)}
        named == UNION {{e.First, e.Second} : e \in Redeclarations(errs)}
    IN {d \in kept \cup bound \cup passed \cup named : IsView(d)}

\* C23: every const-spec view starts unchecked, with no folded Value and no
\* per-identifier Type, and the resolver never changes the state of a view:
\* every view it holds, at every step and when pkgDecls has returned, is
\* unchecked with nil Type and nil Value, and the view that a scope binds is
\* the view that the ConstSpec keeps for that identifier.
C23_ViewsUnchecked ==
    /\ \A v \in ConstViews :
        /\ v.state = unchecked
        /\ v.Type = Nil
        /\ v.Value = Nil
    /\ psyms # Nil =>
        \A n \in DOMAIN tabs[psyms].Decls :
            tabs[psyms].Decls[n].kind = "constSpecView" =>
                \E f \in 1..Len(files) : \E idx \in 1..Len(files[f].Declarations) :
                    LET d == files[f].Declarations[idx]
                    IN /\ d.kind = "ConstSpec"
                       /\ \E i \in 1..Len(d.views) :
                            /\ d.names[i] = n
                            /\ d.views[i] = tabs[psyms].Decls[n]

\* C23 witness: pkgDecls has returned with two const-spec views bound in the
\* package scope, both unchecked.
W_C23 ==
    /\ ret.kind = "return"
    /\ \E n, m \in DOMAIN tabs[psyms].Decls :
        /\ n # m
        /\ tabs[psyms].Decls[n].kind = "constSpecView"
        /\ tabs[psyms].Decls[m].kind = "constSpecView"
        /\ tabs[psyms].Decls[n].state = unchecked
        /\ tabs[psyms].Decls[m].state = unchecked
        /\ {tabs[psyms].Decls[n], tabs[psyms].Decls[m]} \subseteq ConstViews

\* C24: every grammar function terminates on every finite token stream that
\* ends in EOF: no call runs on without end, and parseStatement on a block
\* that is never closed, an opening brace followed by EOF or by a token that
\* starts no statement, raises a SyntaxError.
C24_Terminates ==
    out # NoRet =>
        /\ out.err # [kind |-> "diverges"]
        /\ (Tok(src, 1) = "OpenBrace" /\ Tok(src, 2) \in {"EOF", "Colon"}) =>
               out.err.kind = "SyntaxError"

\* C24 witness: parseStatement was called on an opening brace followed by EOF.
W_C24 ==
    /\ out # NoRet
    /\ Len(src) = 1
    /\ Tok(src, 1) = "OpenBrace"
    /\ Tok(src, 2) = "EOF"
    /\ out = Diverges(2)

\* The statement that a call returned, a range clause unwrapped.
Plain(v) == IF v.kind = "rangeClause" THEN v.Statement ELSE v

\* C26: parseSimpleStmt selects the kind of statement from the token after
\* the leading expression: <- gives a SendStmt, ++ or -- an IncDecStmt, an
\* assignment operator an Assignment, := a ShortVarDecl if the expression is
\* a bare identifier, : a LabeledStmt only if it is a bare identifier and
\* the options are labelOK; anything else gives an ExpressionStmt and leaves
\* the token unconsumed. After a comma-separated list, := gives a
\* ShortVarDecl if every expression is a bare identifier; otherwise the next
\* token must be an assignment operator, which gives an Assignment, or a
\* SyntaxError is raised.
C26_StatementKind ==
    (out # NoRet /\ ~Failed(parseExpression(src, 1))) =>
        LET expr == parseExpression(src, 1)
            j == expr.i
            isID == expr.v.kind = "Identifier"
            Is(kind) == ~Failed(out) => Plain(out.v).kind = kind
            Stops == out.err = NilErr /\ out.i = j
                        /\ out.v = [kind |-> "ExpressionStmt", Expression |-> expr.v]
        IN CASE Tok(src, j) = "LessMinus" ->
                    Is("SendStmt") /\ (~Failed(out) => out.v.Channel = expr.v)
             [] Tok(src, j) \in {"PlusPlus", "MinusMinus"} ->
                    /\ out.err = NilErr
                    /\ out.i = j + 1
                    /\ out.v.kind = "IncDecStmt"
                    /\ out.v.Expression = expr.v
                    /\ out.v.Op = Tok(src, j)
             [] Tok(src, j) \in assignOp ->
                    /\ Is("Assignment")
                    /\ ~Failed(out) => /\ Plain(out.v).Left = <<expr.v>>
                                       /\ Plain(out.v).Op = Tok(src, j)
             [] Tok(src, j) = "ColonEqual" ->
                    IF isID
                    THEN Is("ShortVarDecl") /\ (~Failed(out) => Plain(out.v).Left = <<expr.v>>)
                    ELSE Stops
             [] Tok(src, j) = "Colon" ->
                    IF isID /\ out.opts = "labelOK"
                    THEN Is("LabeledStmt") /\ (~Failed(out) => out.v.Label = expr.v)
                    ELSE Stops
             [] Tok(src, j) = "Comma" ->
                    LET rest == parseExpressionList(src, j + 1)
                        exprs == <<expr.v>> \o rest.v
                    IN IF Failed(rest) THEN out.err = rest.err
                       ELSE IF Tok(src, rest.i) = "ColonEqual"
                               /\ \A k \in 1..Len(exprs) : exprs[k].kind = "Identifier"
                       THEN Is("ShortVarDecl") /\ (~Failed(out) => Plain(out.v).Left = exprs)
                       ELSE IF Tok(src, rest.i) \in assignOp
                       THEN /\ Is("Assignment")
                            /\ ~Failed(out) => /\ Plain(out.v).Left = exprs
                                               /\ Plain(out.v).Op = Tok(src, rest.i)
                       ELSE /\ out.err = SyntaxError(src, rest.i, assignOps)
                            /\ out.i = rest.i
             [] OTHER -> Stops

\* C26 witness: parseSimpleStmt was called on a list of an identifier and a
\* literal followed by :=, and raised a SyntaxError at the := token.
W_C26 ==
    /\ out # NoRet
    /\ Len(src) >= 4
    /\ Tok(src, 1) = "Identifier"
    /\ Tok(src, 2) = "Comma"
    /\ Tok(src, 3) = "IntegerLiteral"
    /\ Tok(src, 4) = "ColonEqual"
    /\ out.err = SyntaxError(src, 4, assignOps)

\* The position of the first := or assignment operator of src, 0 if none.
FirstAssign ==
    LET at == {p \in 1..Len(src) : Tok(src, p) \in assignOp \cup {"ColonEqual"}}
    IN IF at = {} THEN 0 ELSE Min(at)

\* C27: parseSimpleStmt returns a range clause only when called with rangeOK
\* and the token after := or = is range, and then it does; with any other
\* option a range keyword after := or = raises a SyntaxError, and with
\* rangeOK a compound assignment operator followed by range raises one too.
C27_RangeClause ==
    out # NoRet =>
        LET a == FirstAssign
            ranges == a # 0 /\ Tok(src, a + 1) = "Range"
            taken == out.i > a
        IN /\ (~Failed(out) /\ out.v.kind = "rangeClause") =>
                /\ out.opts = "rangeOK"
                /\ ranges
                /\ Tok(src, a) \in {"ColonEqual", "Equal"}
                /\ out.v.Statement.kind =
                       IF Tok(src, a) = "Equal" THEN "Assignment" ELSE "ShortVarDecl"
                /\ Len(out.v.Statement.Right) = 1
                /\ out.i > a + 1
           /\ (ranges /\ taken) =>
                IF out.opts = "rangeOK" /\ Tok(src, a) \in {"ColonEqual", "Equal"}
                THEN ~Failed(out) => out.v.kind = "rangeClause"
                ELSE /\ out.err = SyntaxError(src, a + 1, <<"operand">>)
                     /\ out.i = a + 1

\* C27 witness: parseSimpleStmt was called with rangeOK on a, b += range c
\* and raised a SyntaxError at the range keyword.
W_C27 ==
    /\ out # NoRet
    /\ out.opts = "rangeOK"
    /\ Len(src) = 6
    /\ Tok(src, 2) = "Comma"
    /\ Tok(src, 4) = "PlusEqual"
    /\ Tok(src, 5) = "Range"
    /\ Tok(src, 6) = "Identifier"
    /\ out.err = SyntaxError(src, 5, <<"operand">>)

\* The expressions that a simple statement holds.
StmtExpressions(s) ==
    CASE s.kind \in {"ShortVarDecl", "Assignment"} -> Members(s.Left) \cup Members(s.Right)
      [] s.kind \in {"ExpressionStmt", "IncDecStmt"} -> {s.Expression}
      [] s.kind = "SendStmt" -> {s.Channel, s.Expression}
      [] OTHER -> {}

\* The type assertions with an absent type anywhere in a simple statement.
Guards(s) == {n \in UNION {Nodes(e) : e \in StmtExpressions(Plain(s))} : IsTypeGuard(n)}

\* The positions of src where the tokens . ( type begin.
GuardTokens ==
    {p \in 1..Len(src) :
        Tok(src, p) = "Dot" /\ Tok(src, p + 1) = "OpenParen" /\ Tok(src, p + 2) = "Type"}

\* C25: a TypeAssertion whose type is absent is produced only in type-switch
\* guard context, and only as the sole right-hand side of a short variable
\* declaration with a single identifier on the left: it is never the operand
\* of another expression, never a later element of a list and never
\* followed by another element; outside the guard context x.(type) raises a
\* SyntaxError at the type keyword.
C25_GuardPlacement ==
    out # NoRet =>
        /\ ~Failed(out) =>
            \A g \in Guards(out.v) :
                /\ out.opts = "guardOK"
                /\ out.v.kind = "ShortVarDecl"
                /\ Len(out.v.Left) = 1
                /\ out.v.Right = <<g>>
        /\ out.opts # "guardOK" =>
            \A p \in GuardTokens :
                out.i >= p + 2 =>
                    /\ out.i = p + 2
                    /\ out.err.kind = "SyntaxError"
                    /\ out.err.Got = "Type"
                    /\ out.err.Start = lexStart(p + 2)

\* C25 witness: parseSimpleStmt was called with guardOK on a := x.(type).y
\* and returned a short variable declaration.
W_C25 ==
    /\ out # NoRet
    /\ out.opts = "guardOK"
    /\ src = TokensOf(<<"Identifier", "ColonEqual", "Identifier", "Dot", "OpenParen", "Type",
                        "CloseParen", "Dot", "Identifier">>)
    /\ ~Failed(out)
    /\ out.v.kind = "ShortVarDecl"
    /\ out.i = 10

\* C30: the assertions on type switch guards never fire: no call panics with
\* "parsed a disallowed type switch guard" (parseBinaryExpr) or with "parsed
\* disallowed type switch guard" (parseExpressionListOrTypeGuard).
C30_GuardAssertions ==
    out # NoRet =>
        /\ out.err # StringPanic("parsed a disallowed type switch guard")
        /\ out.err # StringPanic("parsed disallowed type switch guard")

\* C30 witness: parseSimpleStmt was called with guardOK on a := b, x.(type):
\* the second expression of the list is parsed outside the guard context and
\* the type keyword raises a SyntaxError before either assertion is reached.
W_C30 ==
    /\ out # NoRet
    /\ out.opts = "guardOK"
    /\ Len(src) >= 8
    /\ Tok(src, 2) = "ColonEqual"
    /\ Tok(src, 4) = "Comma"
    /\ Tok(src, 8) = "Type"
    /\ out.err.kind = "SyntaxError"
    /\ out.i = 8

\* C28: a variadic ParameterDecl, one with DotDotDot set, is the last
\* declaration of its list in both forms of parameter list, and
\* (a int, b ...int, c int) raises a SyntaxError.
C28_VariadicLast ==
    out # NoRet =>
        /\ ~Failed(out) =>
            \A n \in Nodes(out.v) : n.kind = "ParameterList" =>
                \A k \in 1..Len(n.Parameters) :
                    n.Parameters[k].DotDotDot => k = Len(n.Parameters)
        /\ src = TokensOf(<<"Func", "OpenParen", "Identifier", "Identifier", "Comma",
                            "Identifier", "DotDotDot", "Identifier", "Comma", "Identifier",
                            "Identifier", "CloseParen">>) =>
               (out.v = NilNode /\ out.err.kind = "SyntaxError")

\* C28 witness: parseType was called on func(a int, b ...int, c int) and
\* returned a function type with three parameter declarations.
W_C28 ==
    /\ out # NoRet
    /\ src = TokensOf(<<"Func", "OpenParen", "Identifier", "Identifier", "Comma",
                        "Identifier", "DotDotDot", "Identifier", "Comma", "Identifier",
                        "Identifier", "CloseParen">>)
    /\ ~Failed(out)
    /\ Len(out.v.Signature.Parameters.Parameters) = 3
    /\ out.v.Signature.Parameters.Parameters[2].DotDotDot

\* C29: every ForStmt that parseFor returns has a single form of header: if
\* Range is set then Init, Condition and Post are nil; a range clause is
\* never stored as Init or Post, and Range holds the assignment or short
\* variable declaration of the clause; a header of one expression directly
\* followed by the opening brace sets only Condition, and for followed
\* directly by the opening brace sets none of the four.
C29_ForHeader ==
    (out # NoRet /\ ~Failed(out) /\ Tok(src, 1) = "For") =>
        LET f == out.v
            e == parseExpression(src, 2)
        IN /\ f.kind = "ForStmt"
           /\ f.Block.kind = "BlockStmt"
           /\ f.Range # NilNode =>
                /\ f.Init = NilNode
                /\ f.Condition = NilNode
                /\ f.Post = NilNode
                /\ f.Range.kind \in {"Assignment", "ShortVarDecl"}
                /\ Len(f.Range.Right) = 1
           /\ f.Init.kind # "rangeClause"
           /\ f.Post.kind # "rangeClause"
           /\ Tok(src, 2) = "OpenBrace" =>
                /\ f.Init = NilNode
                /\ f.Condition = NilNode
                /\ f.Post = NilNode
                /\ f.Range = NilNode
           /\ (~Failed(e) /\ Tok(src, e.i) = "OpenBrace") =>
                /\ f.Condition = e.v
                /\ f.Init = NilNode
                /\ f.Post = NilNode
                /\ f.Range = NilNode

\* C29 witness: for a := range b { } was parsed, with the short variable
\* declaration as the Range of the statement.
W_C29 ==
    /\ out # NoRet
    /\ ~Failed(out)
    /\ src = TokensOf(<<"For", "Identifier", "ColonEqual", "Range", "Identifier",
                        "OpenBrace", "CloseBrace">>)
    /\ out.v.kind = "ForStmt"
    /\ out.v.Range.kind = "ShortVarDecl"
    /\ out.v.Init = NilNode
    /\ out.i = 8
====
